---- MODULE Spec2Model ----
(***************************************************************************)
(* Model of the timetable import of src/simple_bot.py: sheet selection,    *)
(* layout discovery, lesson extraction and the delete-then-upsert merge    *)
(* into the schedule table.                                                *)
(*                                                                         *)
(* Text is a sequence of one-character tokens.  The source works on        *)
(* Cyrillic text; a Cyrillic letter is written here by its Latin           *)
(* transliteration, lower case for a small letter and upper case for a     *)
(* capital: a b v g d e zh z i j k l m n o p r s t u f h c ch sh sch       *)
(* hard y soft eh yu ya.  "No" is the numero sign, "--" the long dash,     *)
(* "x" and "X" stand for a letter of no vocabulary of the program.         *)
(***************************************************************************)
EXTENDS Integers, Sequences, FiniteSets, TLC

VARIABLES
    schedule,   \* the rows of table schedule (create_tables)
    imp,        \* per import invocation: position, locals and results
    edit,       \* the save_schedule call of the edit handler, and the handlers returned
    fin,        \* arguments of the pure function under check
    fout,       \* its result, or Pending before the call
    bot         \* the update loop: pending admin actions, the update in hand

vars == <<schedule, imp, edit, fin, fout, bot>>

(***************************************************************************)
(* Python values                                                           *)
(***************************************************************************)
\* None, and a value that is not None
None == [some |-> FALSE, val |-> <<>>]
Some(v) == [some |-> TRUE, val |-> v]

\* a missing cell of the DataFrame (pd.isna)
NaN == <<"NaN">>
notna(cell) == cell # NaN

(***************************************************************************)
(* str methods and the regular expressions of the parser                   *)
(***************************************************************************)
Caps == <<"A", "B", "V", "G", "D", "E", "Z", "I", "K", "L", "M", "N", "O",
          "P", "R", "S", "T", "U", "F", "H", "C", "CH", "Y", "YA", "X">>
Smalls == <<"a", "b", "v", "g", "d", "e", "z", "i", "k", "l", "m", "n", "o",
            "p", "r", "s", "t", "u", "f", "h", "c", "ch", "y", "ya", "x">>

LowerMap == [c \in {Caps[i] : i \in 1..Len(Caps)} |->
                Smalls[CHOOSE i \in 1..Len(Caps) : Caps[i] = c]]
UpperMap == [c \in {Smalls[i] : i \in 1..Len(Smalls)} |->
                Caps[CHOOSE i \in 1..Len(Smalls) : Smalls[i] = c]]
LowerChar(c) == IF c \in DOMAIN LowerMap THEN LowerMap[c] ELSE c
UpperChar(c) == IF c \in DOMAIN UpperMap THEN UpperMap[c] ELSE c

\* str.lower, str.upper
Lower(t) == [i \in 1..Len(t) |-> LowerChar(t[i])]
Upper(t) == [i \in 1..Len(t) |-> UpperChar(t[i])]

WhiteSpace == {" ", "\t", "\n"}
Digits == {"0", "1", "2", "3", "4", "5", "6", "7", "8", "9"}

\* str.strip
RECURSIVE LStrip(_)
LStrip(t) == IF t # <<>> /\ Head(t) \in WhiteSpace THEN LStrip(Tail(t)) ELSE t
RECURSIVE RStrip(_)
RStrip(t) ==
    IF t # <<>> /\ t[Len(t)] \in WhiteSpace
    THEN RStrip(SubSeq(t, 1, Len(t) - 1))
    ELSE t
Strip(t) == RStrip(LStrip(t))

\* needle occurs in hay at position i
MatchAt(hay, needle, i) ==
    /\ i + Len(needle) - 1 <= Len(hay)
    /\ \A k \in 1..Len(needle) : hay[i + k - 1] = needle[k]
StartsWith(t, w) == MatchAt(t, w, 1)
\* the Python operator: needle in hay
Contains(hay, needle) == \E i \in 1..(Len(hay) + 1) : MatchAt(hay, needle, i)

\* the value of a run of decimal digits (int)
DigitVal(c) ==
    CASE c = "0" -> 0 [] c = "1" -> 1 [] c = "2" -> 2 [] c = "3" -> 3
      [] c = "4" -> 4 [] c = "5" -> 5 [] c = "6" -> 6 [] c = "7" -> 7
      [] c = "8" -> 8 [] c = "9" -> 9
RECURSIVE IntOf(_)
IntOf(t) == IF t = <<>> THEN 0 ELSE 10 * IntOf(SubSeq(t, 1, Len(t) - 1)) + DigitVal(t[Len(t)])

(***************************************************************************)
(* Sheet selection                                                         *)
(***************************************************************************)
\* the words of the candidate sheet names: SMENA, smena, Smena
SMENA_UPPER == <<"S", "M", "E", "N", "A">>
SMENA_LOWER == <<"s", "m", "e", "n", "a">>
SMENA_TITLE == <<"S", "m", "e", "n", "a">>

\* possible_sheet_names of _select_sheet: four names built from the shift,
\* then the fixed name of the first shift, twice
possible_sheet_names(shift) ==
    << shift \o <<" ">> \o SMENA_UPPER,
       shift \o <<" ">> \o SMENA_LOWER,
       SMENA_TITLE \o <<" ">> \o shift,
       SMENA_UPPER \o <<" ">> \o shift,
       <<"1", " ">> \o SMENA_UPPER,
       <<"1", " ">> \o SMENA_UPPER >>

InList(x, list) == \E i \in 1..Len(list) : list[i] = x

\* the first loop of _select_sheet: the first candidate that is a sheet name
ExactCandidates(sheet_names, shift) ==
    {k \in 1..Len(possible_sheet_names(shift)) :
        InList(possible_sheet_names(shift)[k], sheet_names)}

\* the second loop: the sheets that contain a candidate, letter case ignored
SubstringSheets(sheet_names, shift) ==
    {i \in 1..Len(sheet_names) :
        \E k \in 1..Len(possible_sheet_names(shift)) :
            Contains(Lower(sheet_names[i]), Lower(possible_sheet_names(shift)[k]))}

Min(S) == CHOOSE m \in S : \A n \in S : m <= n

\* a version that drops the fall back to the first sheet
SelectSheetNoFallback(sheet_names, shift) ==
    IF ExactCandidates(sheet_names, shift) # {}
    THEN Some(possible_sheet_names(shift)[Min(ExactCandidates(sheet_names, shift))])
    ELSE IF SubstringSheets(sheet_names, shift) # {}
    THEN Some(sheet_names[Min(SubstringSheets(sheet_names, shift))])
    ELSE None

\* _select_sheet
_select_sheet(sheet_names, shift) ==
    IF ExactCandidates(sheet_names, shift) # {}
    THEN Some(possible_sheet_names(shift)[Min(ExactCandidates(sheet_names, shift))])
    ELSE IF SubstringSheets(sheet_names, shift) # {}
    THEN Some(sheet_names[Min(SubstringSheets(sheet_names, shift))])
    ELSE IF Len(sheet_names) > 0
    THEN Some(sheet_names[1])
    ELSE None

(***************************************************************************)
(* Class names                                                             *)
(***************************************************************************)
\* the words removed by _extract_class_name, in the order of the
\* alternation: klass, smena, urok, raspisanie, and the numero sign
NoiseWords ==
    << <<"k", "l", "a", "s", "s">>,
       <<"s", "m", "e", "n", "a">>,
       <<"u", "r", "o", "k">>,
       <<"r", "a", "s", "p", "i", "s", "a", "n", "i", "e">>,
       <<"No">> >>

\* re.sub(r'(klass|smena|urok|raspisanie|No)', '', text): left to right,
\* the first alternative that matches at a position is removed
RECURSIVE RemoveNoise(_)
RemoveNoise(t) ==
    IF t = <<>> THEN <<>>
    ELSE IF \E w \in 1..Len(NoiseWords) : StartsWith(t, NoiseWords[w])
    THEN LET w == Min({v \in 1..Len(NoiseWords) : StartsWith(t, NoiseWords[v])})
         IN  RemoveNoise(SubSeq(t, Len(NoiseWords[w]) + 1, Len(t)))
    ELSE <<Head(t)>> \o RemoveNoise(Tail(t))

SectionLetters == {"a", "b", "v"}

\* the positions where each pattern of _extract_class_name matches
DigitLetterAt(t) ==
    {i \in 1..(Len(t) - 1) : t[i] \in Digits /\ t[i + 1] \in SectionLetters}
TenAt(t) ==
    {i \in 1..(Len(t) - 2) : t[i] = "1" /\ t[i + 1] = "0" /\ t[i + 2] \in {"p", "r"}}
ElevenAt(t) ==
    {i \in 1..(Len(t) - 2) : t[i] = "1" /\ t[i + 1] = "1" /\ t[i + 2] = "r"}

\* the patterns tried in order on the cleaned text; re.search returns the
\* leftmost match of the first pattern that matches anywhere
SearchClass(t) ==
    IF DigitLetterAt(t) # {}
    THEN Some(Upper(SubSeq(t, Min(DigitLetterAt(t)), Min(DigitLetterAt(t)) + 1)))
    ELSE IF TenAt(t) # {}
    THEN Some(Upper(SubSeq(t, Min(TenAt(t)), Min(TenAt(t)) + 2)))
    ELSE IF ElevenAt(t) # {}
    THEN Some(Upper(SubSeq(t, Min(ElevenAt(t)), Min(ElevenAt(t)) + 2)))
    ELSE None

\* _extract_class_name
_extract_class_name(text) == SearchClass(Strip(RemoveNoise(Strip(Lower(text)))))

\* is_valid_class: the class names the bot accepts from its users
is_valid_class(class_str) ==
    LET c == Upper(Strip(class_str))
    IN  \/ /\ Len(c) = 2
           /\ c[1] \in {"5", "6", "7", "8", "9"}
           /\ c[2] \in {"A", "B", "V"}
        \/ c \in { <<"1", "0", "P">>, <<"1", "0", "R">>, <<"1", "1", "R">> }

\* _is_class_header: the text, lower-cased and stripped, matches from its
\* start one of: digit+letter, 10p, 10r, 11r, digit+letter ... klass,
\* klass ... digit+letter ('.' matches no line break)
_is_class_header(text) ==
    LET t == Strip(Lower(text))
        klass == NoiseWords[1]
        NoBreak(a, b) == \A k \in a..b : t[k] # "\n"
    IN  \/ Len(t) = 2 /\ t[1] \in Digits /\ t[2] \in SectionLetters
        \/ t \in { <<"1", "0", "p">>, <<"1", "0", "r">>, <<"1", "1", "r">> }
        \/ /\ Len(t) >= 2 /\ t[1] \in Digits /\ t[2] \in SectionLetters
           /\ \E i \in 3..Len(t) : MatchAt(t, klass, i) /\ NoBreak(3, i - 1)
        \/ /\ StartsWith(t, klass)
           /\ \E i \in 6..(Len(t) - 1) :
                 /\ t[i] \in Digits /\ t[i + 1] \in SectionLetters
                 /\ NoBreak(6, i - 1)

(***************************************************************************)
(* Days of the week                                                        *)
(***************************************************************************)
\* day_patterns of _find_day_rows, in the order of the dict: ponedelnik,
\* vtornik, sreda, chetverg, pyatnica, subbota
DayWords ==
    << <<"p", "o", "n", "e", "d", "e", "l", "soft", "n", "i", "k">>,
       <<"v", "t", "o", "r", "n", "i", "k">>,
       <<"s", "r", "e", "d", "a">>,
       <<"ch", "e", "t", "v", "e", "r", "g">>,
       <<"p", "ya", "t", "n", "i", "c", "a">>,
       <<"s", "u", "b", "b", "o", "t", "a">> >>
DayCodes == <<"monday", "tuesday", "wednesday", "thursday", "friday", "saturday">>

\* the days whose name the lower-cased, stripped text contains
DaysIn(text) ==
    LET t == Strip(Lower(text))
    IN  {d \in 1..Len(DayWords) : Contains(t, DayWords[d])}

\* _is_day_of_week
_is_day_of_week(text) == DaysIn(text) # {}

(***************************************************************************)
(* The cell grid: df is a sequence of rows, a row a sequence of cells, a   *)
(* cell a text or NaN.  Row and column indices count from 0 as in the      *)
(* source.                                                                 *)
(***************************************************************************)
NRows(df) == Len(df)
NCols(df) == IF Len(df) = 0 THEN 0 ELSE Len(df[1])
iloc(df, i, j) == df[i + 1][j + 1]
RowAt(df, i) == df[i + 1]

MinOf(a, b) == IF a <= b THEN a ELSE b

\* the rows _find_class_header_row looks at
HeaderWindow == 15
\* the class cells a header row needs
HeaderMinClasses == 2

\* class_count of row i
ClassCount(df, i) ==
    Cardinality({j \in 0..(NCols(df) - 1) :
        notna(iloc(df, i, j)) /\ _is_class_header(iloc(df, i, j))})

\* _find_class_header_row
_find_class_header_row(df) ==
    LET rows == {i \in 0..(MinOf(HeaderWindow, NRows(df)) - 1) :
                    ClassCount(df, i) >= HeaderMinClasses}
    IN  IF rows # {} THEN Some(Min(rows)) ELSE None

\* class_columns[class_name] = j on a dict kept as the sequence of its
\* items in insertion order: a known key keeps its place and takes the
\* new column
DictSet(items, key, value) ==
    IF \E k \in 1..Len(items) : items[k][1] = key
    THEN [k \in 1..Len(items) |->
            IF items[k][1] = key THEN <<key, value>> ELSE items[k]]
    ELSE Append(items, <<key, value>>)

\* the loop of _extract_class_columns from column j on
RECURSIVE ClassColumnsFrom(_, _, _)
ClassColumnsFrom(class_row, j, class_columns) ==
    IF j >= Len(class_row) THEN class_columns
    ELSE LET cell == class_row[j + 1]
             class_name == _extract_class_name(Strip(cell))
         IN  IF notna(cell) /\ class_name.some
             THEN ClassColumnsFrom(class_row, j + 1,
                                   DictSet(class_columns, class_name.val, j))
             ELSE ClassColumnsFrom(class_row, j + 1, class_columns)

\* _extract_class_columns
_extract_class_columns(df, class_row_idx) ==
    ClassColumnsFrom(RowAt(df, class_row_idx), 0, <<>>)

\* the columns _find_day_rows searches
DaySearchCols == 3

\* the first of the leading columns of row i that holds a day name
DayColOfRow(df, i) ==
    {j \in 0..(MinOf(DaySearchCols, NCols(df)) - 1) :
        notna(iloc(df, i, j)) /\ _is_day_of_week(iloc(df, i, j))}

\* the loop of _find_day_rows from row i on; the rows come out in
\* ascending order, which the closing sort keeps
RECURSIVE DayRowsFrom(_, _)
DayRowsFrom(df, i) ==
    IF i >= NRows(df) THEN <<>>
    ELSE IF DayColOfRow(df, i) # {}
    THEN <<<<DayCodes[Min(DaysIn(iloc(df, i, Min(DayColOfRow(df, i)))))], i>>>>
            \o DayRowsFrom(df, i + 1)
    ELSE DayRowsFrom(df, i + 1)

\* _find_day_rows
_find_day_rows(df) == DayRowsFrom(df, 0)

(***************************************************************************)
(* Lesson extraction                                                       *)
(***************************************************************************)
\* re.findall(r'\d+', t)[0]: the first maximal run of digits, if any
FirstNumber(t) ==
    LET starts == {i \in 1..Len(t) : t[i] \in Digits}
    IN  IF starts = {} THEN None
        ELSE LET a == Min(starts)
                 stops == {k \in a..Len(t) : k = Len(t) \/ t[k + 1] \notin Digits}
             IN  Some(SubSeq(t, a, Min(stops)))

\* the range of lesson numbers taken from the lesson-number column
MinLesson == 1
MaxLesson == 10
\* the column of the lesson numbers
LessonNumCol == 1

\* a range check that lets every number through
ExplicitNumberAnyRange(df, row_idx) ==
    IF NCols(df) > LessonNumCol /\ notna(iloc(df, row_idx, LessonNumCol))
       /\ FirstNumber(Strip(iloc(df, row_idx, LessonNumCol))).some
    THEN Some(IntOf(FirstNumber(Strip(iloc(df, row_idx, LessonNumCol))).val))
    ELSE None

\* the first pass of _parse_day_schedule for one row: the number in
\* column 1, kept when it lies in 1..10
ExplicitNumber(df, row_idx) ==
    IF NCols(df) > LessonNumCol /\ notna(iloc(df, row_idx, LessonNumCol))
    THEN LET numbers == FirstNumber(Strip(iloc(df, row_idx, LessonNumCol)))
         IN  IF numbers.some /\ MinLesson <= IntOf(numbers.val)
                             /\ IntOf(numbers.val) <= MaxLesson
             THEN Some(IntOf(numbers.val))
             ELSE None
    ELSE None

\* lesson_numbers: row index -> explicit number, for the rows of the block
lesson_numbers(df, start_row, end_row) ==
    [r \in {q \in start_row..(MinOf(end_row, NRows(df)) - 1) : ExplicitNumber(df, q).some}
        |-> ExplicitNumber(df, r).val]

\* re.search(r'\((.*?)\)', t): the leftmost "(" with a ")" after it on the
\* same line, and the nearest such ")"
ParenAt(t) ==
    {i \in 1..Len(t) : t[i] = "(" /\
        \E k \in (i + 1)..Len(t) : t[k] = ")" /\ \A m \in (i + 1)..(k - 1) : t[m] # "\n"}
CloseOf(t, i) == Min({k \in (i + 1)..Len(t) : t[k] = ")"})

\* re.sub(r'\(.*?\)', '', t): every parenthesised segment removed
RECURSIVE RemoveParens(_)
RemoveParens(t) ==
    IF ParenAt(t) = {} THEN t
    ELSE LET i == Min(ParenAt(t))
         IN  SubSeq(t, 1, i - 1) \o RemoveParens(SubSeq(t, CloseOf(t, i) + 1, Len(t)))

Dashes == { <<"-">>, <<"--">>, <<>> }

\* a skip test that lets the dashes through
SkippedCellKeepsDash(row, col_idx) ==
    \/ ~(col_idx < Len(row))
    \/ ~notna(row[col_idx + 1])
    \/ Strip(row[col_idx + 1]) = <<>>
    \/ _is_day_of_week(Strip(row[col_idx + 1]))

\* the class cell of a row that the extraction loop skips
SkippedCell(row, col_idx) ==
    \/ ~(col_idx < Len(row))
    \/ ~notna(row[col_idx + 1])
    \/ Strip(row[col_idx + 1]) \in Dashes
    \/ _is_day_of_week(Strip(row[col_idx + 1]))

\* a lesson that never takes a room
RoomNever(row, col_idx) == <<>>

\* room of the lesson in column col_idx: the stripped text of the next
\* column when it is there, not empty and not a day name
RoomOf(row, col_idx) ==
    IF col_idx + 1 < Len(row) /\ notna(row[col_idx + 2])
       /\ Strip(row[col_idx + 2]) # <<>> /\ ~_is_day_of_week(Strip(row[col_idx + 2]))
    THEN Strip(row[col_idx + 2])
    ELSE <<>>

HasParens(subject) ==
    /\ \E i \in 1..Len(subject) : subject[i] = "("
    /\ \E i \in 1..Len(subject) : subject[i] = ")"
    /\ ParenAt(subject) # {}

TeacherOf(subject) ==
    IF HasParens(subject)
    THEN SubSeq(subject, Min(ParenAt(subject)) + 1, CloseOf(subject, Min(ParenAt(subject))) - 1)
    ELSE <<>>

SubjectOf(subject) ==
    IF HasParens(subject) THEN Strip(RemoveParens(subject)) ELSE subject

\* the dict appended for one class cell
LessonOf(row, class_name, col_idx, lesson_num, shift, day_name) ==
    [class |-> class_name, day |-> day_name, lesson_number |-> lesson_num,
     subject |-> SubjectOf(Strip(row[col_idx + 1])),
     teacher |-> TeacherOf(Strip(row[col_idx + 1])),
     room |-> RoomOf(row, col_idx), shift |-> shift]

\* the loop over class_columns.items() for one row, from item k on
RECURSIVE RowLessonsFrom(_, _, _, _, _, _)
RowLessonsFrom(row, class_columns, k, lesson_num, shift, day_name) ==
    IF k > Len(class_columns) THEN <<>>
    ELSE IF SkippedCell(row, class_columns[k][2])
    THEN RowLessonsFrom(row, class_columns, k + 1, lesson_num, shift, day_name)
    ELSE <<LessonOf(row, class_columns[k][1], class_columns[k][2],
                    lesson_num, shift, day_name)>>
            \o RowLessonsFrom(row, class_columns, k + 1, lesson_num, shift, day_name)

AllNaN(row) == \A j \in 1..Len(row) : ~notna(row[j])

\* a second pass that advances the counter after every row with a lesson,
\* numbered or not
RECURSIVE DayLoopAlwaysAdvances(_, _, _, _, _, _, _)
DayLoopAlwaysAdvances(df, row_idx, stop, current_lesson_num, class_columns, shift, day_name) ==
    IF row_idx >= stop
    THEN [lessons |-> <<>>, current_lesson_num |-> current_lesson_num]
    ELSE IF AllNaN(RowAt(df, row_idx))
    THEN DayLoopAlwaysAdvances(df, row_idx + 1, stop, current_lesson_num,
                               class_columns, shift, day_name)
    ELSE LET explicit == ExplicitNumber(df, row_idx)
             lesson_num == IF explicit.some THEN explicit.val ELSE current_lesson_num
             found == RowLessonsFrom(RowAt(df, row_idx), class_columns, 1,
                                     lesson_num, shift, day_name)
             next_num == IF found # <<>> THEN lesson_num + 1 ELSE lesson_num
             rest == DayLoopAlwaysAdvances(df, row_idx + 1, stop, next_num,
                                           class_columns, shift, day_name)
         IN  [lessons |-> found \o rest.lessons,
              current_lesson_num |-> rest.current_lesson_num]

\* the second pass of _parse_day_schedule from row_idx on, with the
\* running counter; its value: the lessons appended and the counter left
RECURSIVE DayLoop(_, _, _, _, _, _, _)
DayLoop(df, row_idx, stop, current_lesson_num, class_columns, shift, day_name) ==
    IF row_idx >= stop
    THEN [lessons |-> <<>>, current_lesson_num |-> current_lesson_num]
    ELSE IF AllNaN(RowAt(df, row_idx))
    THEN DayLoop(df, row_idx + 1, stop, current_lesson_num, class_columns, shift, day_name)
    ELSE LET explicit == ExplicitNumber(df, row_idx)
             lesson_num == IF explicit.some THEN explicit.val ELSE current_lesson_num
             found == RowLessonsFrom(RowAt(df, row_idx), class_columns, 1,
                                     lesson_num, shift, day_name)
             next_num == IF found # <<>> /\ ~explicit.some
                         THEN lesson_num + 1 ELSE lesson_num
             rest == DayLoop(df, row_idx + 1, stop, next_num, class_columns, shift, day_name)
         IN  [lessons |-> found \o rest.lessons,
              current_lesson_num |-> rest.current_lesson_num]

\* _parse_day_schedule
_parse_day_schedule(df, start_row, end_row, class_columns, shift, day_name) ==
    DayLoop(df, start_row, MinOf(end_row, NRows(df)), 1,
            class_columns, shift, day_name).lessons

\* every block running to the end of the grid
EndRowAlwaysLast(df, day_rows, k) == NRows(df)

\* end_row of the block of day_rows[k]: the row of the next day, else len(df)
EndRow(df, day_rows, k) ==
    LET later == {m \in 1..Len(day_rows) : day_rows[m][2] > day_rows[k][2]}
    IN  IF later # {} THEN day_rows[Min(later)][2] ELSE NRows(df)

\* the loop of _parse_method3 over day_rows from item k on
RECURSIVE DaysFrom(_, _, _, _, _)
DaysFrom(df, day_rows, k, class_columns, shift) ==
    IF k > Len(day_rows) THEN <<>>
    ELSE _parse_day_schedule(df, day_rows[k][2], EndRow(df, day_rows, k),
                          class_columns, shift, day_rows[k][1])
            \o DaysFrom(df, day_rows, k + 1, class_columns, shift)

\* _parse_method3: success and the lessons appended to lessons_data
_parse_method3(df, shift) ==
    IF ~_find_class_header_row(df).some
    THEN [success |-> FALSE, lessons_data |-> <<>>]
    ELSE IF _extract_class_columns(df, _find_class_header_row(df).val) = <<>>
    THEN [success |-> FALSE, lessons_data |-> <<>>]
    ELSE IF _find_day_rows(df) = <<>>
    THEN [success |-> FALSE, lessons_data |-> <<>>]
    ELSE LET lessons == DaysFrom(df, _find_day_rows(df), 1,
                                 _extract_class_columns(df, _find_class_header_row(df).val), shift)
         IN  [success |-> Len(lessons) > 0, lessons_data |-> lessons]

(***************************************************************************)
(* The workbook: the sheet names in order and the grid of each sheet       *)
(***************************************************************************)
SheetNames(book) == [k \in 1..Len(book) |-> book[k].name]
\* pd.read_excel(sheet_name = name, header = None)
ReadExcel(book, name) == book[Min({k \in 1..Len(book) : book[k].name = name})].grid

\* a version that hands back the list as it is, empty or not
ParseExcelScheduleKeepsEmpty(book, shift) ==
    LET selected_sheet == _select_sheet(SheetNames(book), shift)
    IN  IF ~selected_sheet.some \/ selected_sheet.val = <<>> THEN None
        ELSE Some(_parse_method3(ReadExcel(book, selected_sheet.val), shift).lessons_data)

\* parse_excel_schedule: the list of lessons, or None
parse_excel_schedule(book, shift) ==
    LET selected_sheet == _select_sheet(SheetNames(book), shift)
    IN  IF ~selected_sheet.some \/ selected_sheet.val = <<>> THEN None
        ELSE LET m3 == _parse_method3(ReadExcel(book, selected_sheet.val), shift)
             IN  IF ~m3.success THEN None
                 ELSE IF m3.lessons_data # <<>> THEN Some(m3.lessons_data)
                 ELSE None

(***************************************************************************)
(* Table schedule: UNIQUE(class, day, lesson_number)                       *)
(***************************************************************************)
SameKey(r, l) ==
    r.class = l.class /\ r.day = l.day /\ r.lesson_number = l.lesson_number

RowOf(l) ==
    [class |-> l.class, day |-> l.day, lesson_number |-> l.lesson_number,
     subject |-> l.subject, teacher |-> l.teacher, room |-> l.room]

\* a DELETE that matches no row
DeleteNoClass(tbl, class_name) == tbl

\* a DELETE without its WHERE clause
DeleteEveryClass(tbl, class_name) == {}

\* DELETE FROM schedule WHERE class = ?
DeleteClass(tbl, class_name) == {r \in tbl : r.class # class_name}

\* an insert that ignores the conflict clause
InsertOnly(tbl, l) == tbl \cup {RowOf(l)}

\* an insert that leaves the row of a conflicting key as it is
UpsertDoNothing(tbl, l) ==
    IF \E r \in tbl : SameKey(r, l) THEN tbl ELSE tbl \cup {RowOf(l)}

\* INSERT ... ON CONFLICT (class, day, lesson_number) DO UPDATE SET
\* subject, teacher, room
Upsert(tbl, l) ==
    IF \E r \in tbl : SameKey(r, l)
    THEN {IF SameKey(r, l) THEN RowOf(l) ELSE r : r \in tbl}
    ELSE tbl \cup {RowOf(l)}

\* the rows in ascending lesson_number, each as the tuple of the four
\* selected columns
RECURSIVE OrderByLessonNumber(_)
OrderByLessonNumber(rows) ==
    IF rows = {} THEN <<>>
    ELSE LET first == CHOOSE r \in rows :
                          \A q \in rows : r.lesson_number <= q.lesson_number
         IN  <<<<first.lesson_number, first.subject, first.teacher, first.room>>>>
                \o OrderByLessonNumber(rows \ {first})

\* get_schedule: SELECT lesson_number, subject, teacher, room FROM schedule
\* WHERE class = ? AND day = ? ORDER BY lesson_number
get_schedule(tbl, class_name, day) ==
    OrderByLessonNumber({r \in tbl : r.class = class_name /\ r.day = day})

(***************************************************************************)
(* Inputs of the import: workbooks of one sheet whose grid has the columns *)
(* day, lesson number, class 5A, class 6B; and the tables the import may   *)
(* find                                                                    *)
(***************************************************************************)
T5A == <<"5", "A">>
T6B == <<"6", "B">>
Sreda == <<"S", "r", "e", "d", "a">>
Vtornik == <<"V", "t", "o", "r", "n", "i", "k">>
Mat == <<"M", "a", "t">>
Fiz == <<"F", "i", "z">>
N1 == <<"1">>
Sheet1 == <<"1", " ">> \o SMENA_UPPER

HeaderRow == <<NaN, NaN, T5A, T6B>>
ImportRows ==
    { HeaderRow,
      <<Sreda, N1, Mat, NaN>>,
      <<NaN, NaN, Fiz, Mat>>,
      <<NaN, N1, Fiz, NaN>>,
      <<Vtornik, NaN, NaN, Fiz>> }

\* the longest grid of an imported workbook
MaxImportRows == 3

SeqsUpTo(S, n) == UNION {[1..k -> S] : k \in 0..n}

ImportGrids == SeqsUpTo(ImportRows, MaxImportRows)
Books == {<<>>} \cup {<<[name |-> Sheet1, grid |-> g]>> : g \in ImportGrids}
Shifts == { <<"1">>, <<"2">> }

StoredRow(c, d, n, subj) ==
    [class |-> c, day |-> d, lesson_number |-> n,
     subject |-> subj, teacher |-> <<>>, room |-> <<>>]
InitialSchedules ==
    { {},
      { StoredRow(T5A, "wednesday", 1, Fiz) },
      { StoredRow(T5A, "friday", 2, Mat), StoredRow(T6B, "wednesday", 1, Mat) },
      { StoredRow(T5A, "wednesday", 1, Fiz), StoredRow(T5A, "friday", 2, Mat),
        StoredRow(T6B, "wednesday", 1, Mat) } }

(***************************************************************************)
(* import_schedule_from_excel, one invocation per process.  Every          *)
(* db.execute commits on its own (DatabaseManager.execute), so each        *)
(* DELETE and each INSERT is one step; a step of the parser reads only     *)
(* the workbook.                                                           *)
(***************************************************************************)
Procs == {"p1", "p2"}
\* run() handles one update at a time: one invocation is in progress
SeqProcs == {"p1"}

Pending == [called |-> FALSE, ret |-> None]
NoArgs == [fn |-> "none"]

IdleImport ==
    [pc |-> "idle", book |-> <<>>, shift |-> <<>>,
     df |-> <<>>, class_columns |-> <<>>, day_rows |-> <<>>,
     lessons_data |-> <<>>, imported_classes |-> {}, next |-> 1,
     imported_count |-> 0, error_count |-> 0,
     parsed |-> "no", ret |-> "none", failure |-> "none",
     \* history: the stages run, the statements issued, the table before
     stages |-> <<>>, ops |-> <<>>, before |-> {}]

\* no save_schedule call in progress and no handler returned yet
IdleEdit ==
    [pc |-> "idle", class |-> <<>>, day |-> "none", lessons |-> <<>>, next |-> 1,
     ret |-> "none", returned |-> 0,
     \* history: the statements issued, the table before
     ops |-> <<>>, before |-> {}]

\* no document message taken yet
NoUpdate == [kind |-> "none", user |-> "", waiting_excel |-> FALSE, before |-> {}]
NoDocument == [kind |-> "none", waiting_excel |-> FALSE, before |-> {}]

\* the bot after __init__: admin_states = {}, run() between two updates
IdleBot ==
    [admin_states |-> {}, running |-> "none",
     \* history: the document message taken last, the one behind each import
     last |-> NoDocument, by |-> [p \in {"p1", "p2"} |-> NoUpdate]]

\* the classes of the lessons: set(lesson['class'] for lesson in lessons_data)
ClassesOf(lessons) == {lessons[k].class : k \in 1..Len(lessons)}

\* parse_excel_schedule returned None: import returns (False, message)
ParseFailed(st, stage, kind) ==
    [st EXCEPT !.pc = "done", !.parsed = "None", !.ret = "False",
               !.failure = kind, !.stages = Append(st.stages, stage)]

\* the call import_schedule_from_excel(file_content, shift) with one of
\* the given workbooks and shifts
ImportStartOf(p, books, shifts) ==
    /\ imp[p].pc = "idle"
    /\ \E book \in books, shift \in shifts :
           imp' = [imp EXCEPT ![p] = [IdleImport EXCEPT !.pc = "select_sheet",
                                        !.book = book, !.shift = shift,
                                        !.before = schedule]]
    /\ UNCHANGED <<schedule, edit, fin, fout, bot>>

\* the call: import_schedule_from_excel(file_content, shift)
ImportStart(p) ==
    /\ imp[p].pc = "idle"
    /\ \E book \in Books, shift \in Shifts :
           imp' = [imp EXCEPT ![p] = [IdleImport EXCEPT !.pc = "select_sheet",
                                        !.book = book, !.shift = shift,
                                        !.before = schedule]]
    /\ UNCHANGED <<schedule, edit, fin, fout, bot>>

\* parse_excel_schedule: _select_sheet and the read of the sheet
SelectSheetStep(p) ==
    /\ imp[p].pc = "select_sheet"
    /\ LET st == imp[p]
           selected_sheet == _select_sheet(SheetNames(st.book), st.shift)
       IN  imp' = [imp EXCEPT ![p] =
               IF ~selected_sheet.some \/ selected_sheet.val = <<>>
               THEN ParseFailed(st, "select_sheet", "SheetNotFound")
               ELSE [st EXCEPT !.pc = "find_header",
                               !.df = ReadExcel(st.book, selected_sheet.val),
                               !.stages = Append(st.stages, "select_sheet")]]
    /\ UNCHANGED <<schedule, edit, fin, fout, bot>>

\* _parse_method3: _find_class_header_row and _extract_class_columns
LocateHeaderStep(p) ==
    /\ imp[p].pc = "find_header"
    /\ LET st == imp[p]
           class_row_idx == _find_class_header_row(st.df)
       IN  imp' = [imp EXCEPT ![p] =
               IF ~class_row_idx.some
               THEN ParseFailed(st, "find_header", "HeaderNotFound")
               ELSE IF _extract_class_columns(st.df, class_row_idx.val) = <<>>
               THEN ParseFailed(st, "find_header", "NoClassColumns")
               ELSE [st EXCEPT !.pc = "find_days",
                               !.class_columns = _extract_class_columns(st.df, class_row_idx.val),
                               !.stages = Append(st.stages, "find_header")]]
    /\ UNCHANGED <<schedule, edit, fin, fout, bot>>

\* a version without the check for an empty list of day rows
LocateDaysStepNoCheck(p) ==
    /\ imp[p].pc = "find_days"
    /\ imp' = [imp EXCEPT ![p] =
           [@ EXCEPT !.pc = "extract", !.day_rows = _find_day_rows(imp[p].df),
                     !.stages = Append(@, "find_days")]]
    /\ UNCHANGED <<schedule, edit, fin, fout, bot>>

\* _parse_method3: _find_day_rows
LocateDaysStep(p) ==
    /\ imp[p].pc = "find_days"
    /\ LET st == imp[p]
           day_rows == _find_day_rows(st.df)
       IN  imp' = [imp EXCEPT ![p] =
               IF day_rows = <<>>
               THEN ParseFailed(st, "find_days", "DayBlockNotFound")
               ELSE [st EXCEPT !.pc = "extract", !.day_rows = day_rows,
                               !.stages = Append(st.stages, "find_days")]]
    /\ UNCHANGED <<schedule, edit, fin, fout, bot>>

\* _parse_method3: the loop over the day blocks; then the returns of
\* _parse_method3 and parse_excel_schedule and the check of the import
ExtractStep(p) ==
    /\ imp[p].pc = "extract"
    /\ LET st == imp[p]
           lessons == DaysFrom(st.df, st.day_rows, 1, st.class_columns, st.shift)
       IN  imp' = [imp EXCEPT ![p] =
               IF ~(Len(lessons) > 0)
               THEN ParseFailed(st, "extract", "EmptyResult")
               ELSE [st EXCEPT !.pc = "delete", !.lessons_data = lessons,
                               !.parsed = "list",
                               !.imported_classes = ClassesOf(lessons),
                               !.stages = Append(st.stages, "extract")]]
    /\ UNCHANGED <<schedule, edit, fin, fout, bot>>

\* the DELETE of one class of imported_classes, in the set's order
DeleteOk(p, class_name) ==
    /\ imp[p].pc = "delete"
    /\ class_name \in imp[p].imported_classes
    /\ schedule' = DeleteClass(schedule, class_name)
    /\ imp' = [imp EXCEPT ![p] =
           [@ EXCEPT !.imported_classes = @ \ {class_name},
                     !.pc = IF imp[p].imported_classes = {class_name}
                            THEN "upsert" ELSE "delete",
                     !.stages = IF "merge" \in {@[k] : k \in 1..Len(@)}
                                THEN @ ELSE Append(@, "merge"),
                     !.ops = Append(@, [op |-> "delete", class |-> class_name,
                                        idx |-> 0, ok |-> TRUE])]]
    /\ UNCHANGED <<edit, fin, fout, bot>>

\* the DELETE raises: execute rolls back and the import returns
\* (False, message) from its outer handler
DeleteRaise(p, class_name) ==
    /\ imp[p].pc = "delete"
    /\ class_name \in imp[p].imported_classes
    /\ imp' = [imp EXCEPT ![p] =
           [@ EXCEPT !.pc = "done", !.ret = "False", !.failure = "DeleteRaised",
                     !.stages = IF "merge" \in {@[k] : k \in 1..Len(@)}
                                THEN @ ELSE Append(@, "merge"),
                     !.ops = Append(@, [op |-> "delete", class |-> class_name,
                                        idx |-> 0, ok |-> FALSE])]]
    /\ UNCHANGED <<schedule, edit, fin, fout, bot>>

\* where the loop over lessons_data goes after lesson number next
AfterUpsert(st) ==
    IF st.next >= Len(st.lessons_data)
    THEN [st EXCEPT !.next = @ + 1, !.pc = "done", !.ret = "True"]
    ELSE [st EXCEPT !.next = @ + 1]

\* the INSERT of the next lesson succeeds
UpsertOk(p) ==
    /\ imp[p].pc = "upsert"
    /\ LET st == imp[p]
           lesson == st.lessons_data[st.next]
       IN  /\ schedule' = Upsert(schedule, lesson)
           /\ imp' = [imp EXCEPT ![p] =
                  AfterUpsert([st EXCEPT !.imported_count = @ + 1,
                      !.ops = Append(@, [op |-> "upsert", class |-> lesson.class,
                                         idx |-> st.next, ok |-> TRUE])])]
    /\ UNCHANGED <<edit, fin, fout, bot>>

\* an INSERT whose error ends the import
UpsertRaiseAborts(p) ==
    /\ imp[p].pc = "upsert"
    /\ imp' = [imp EXCEPT ![p] =
           [@ EXCEPT !.pc = "done", !.ret = "False", !.error_count = @ + 1,
                     !.ops = Append(@, [op |-> "upsert",
                                        class |-> imp[p].lessons_data[imp[p].next].class,
                                        idx |-> imp[p].next, ok |-> FALSE])]]
    /\ UNCHANGED <<schedule, edit, fin, fout, bot>>

\* the INSERT raises: the error is counted and the loop goes on
UpsertRaise(p) ==
    /\ imp[p].pc = "upsert"
    /\ LET st == imp[p]
           lesson == st.lessons_data[st.next]
       IN  imp' = [imp EXCEPT ![p] =
               AfterUpsert([st EXCEPT !.error_count = @ + 1,
                   !.ops = Append(@, [op |-> "upsert", class |-> lesson.class,
                                      idx |-> st.next, ok |-> FALSE])])]
    /\ UNCHANGED <<schedule, edit, fin, fout, bot>>

(***************************************************************************)
(* The import, one invocation at a time                                    *)
(***************************************************************************)
Init ==
    /\ schedule \in InitialSchedules
    /\ imp = [p \in Procs |-> IdleImport]
    /\ edit = IdleEdit
    /\ bot = IdleBot
    /\ fin = NoArgs
    /\ fout = Pending

Next ==
    \E p \in SeqProcs :
        \/ ImportStart(p)
        \/ SelectSheetStep(p)
        \/ LocateHeaderStep(p)
        \/ LocateDaysStep(p)
        \/ ExtractStep(p)
        \/ \E c \in imp[p].imported_classes : DeleteOk(p, c)
        \/ \E c \in imp[p].imported_classes : DeleteRaise(p, c)
        \/ UpsertOk(p)
        \/ UpsertRaise(p)

Spec == Init /\ [][Next]_vars

(***************************************************************************)
(* Properties of the import                                                *)
(***************************************************************************)
Done(p) == imp[p].pc = "done"
Extracted(p) == ClassesOf(imp[p].lessons_data)
UpsertOps(p) == SelectSeq(imp[p].ops, LAMBDA o : o.op = "upsert")
DeleteOps(p) == SelectSeq(imp[p].ops, LAMBDA o : o.op = "delete")
RowsOfClass(tbl, c) == {r \in tbl : r.class = c}
KeyRows(tbl, l) == {r \in tbl : SameKey(r, l)}

\* C1 (merge isolation): from the call on, the rows of the table whose
\* class is not a class of the extracted lessons are the rows the table
\* held for those classes before the call: none deleted, none altered,
\* none added
C1_MergeIsolation ==
    \A p \in Procs : imp[p].pc # "idle" =>
        {r \in schedule : r.class \notin Extracted(p)}
            = {r \in imp[p].before : r.class \notin Extracted(p)}

\* an import of class 5A alone has run to its end and replaced rows,
\* while the table held a row of class 6B
C1_Witness ==
    \E p \in Procs :
        /\ Done(p) /\ imp[p].ret = "True"
        /\ Extracted(p) = {T5A}
        /\ \E r \in imp[p].before : r.class = T6B
        /\ \E r \in imp[p].before : r.class = T5A /\ r \notin schedule
        /\ imp[p].imported_count > 0

\* the lessons of the list that no later lesson of the list overwrites
LastOfKey(lessons) ==
    {k \in 1..Len(lessons) :
        ~\E j \in (k + 1)..Len(lessons) : SameKey(lessons[j], lessons[k])}

\* C2 (full replacement): when the import has returned True with no
\* failed insert, the rows of every extracted class are exactly the
\* extracted lessons of that class, one per key, and so no row of that
\* class from before the call is left on any day
C2_FullReplacement ==
    \A p \in Procs :
        (Done(p) /\ imp[p].ret = "True" /\ imp[p].error_count = 0) =>
            \A c \in Extracted(p) :
                RowsOfClass(schedule, c)
                    = {RowOf(imp[p].lessons_data[k]) :
                          k \in {j \in LastOfKey(imp[p].lessons_data) :
                                    imp[p].lessons_data[j].class = c}}

\* such an import has removed a row of an extracted class on a day the
\* workbook does not mention
C2_Witness ==
    \E p \in Procs :
        /\ Done(p) /\ imp[p].ret = "True" /\ imp[p].error_count = 0
        /\ \E r \in imp[p].before :
              /\ r.class \in Extracted(p)
              /\ \A k \in 1..Len(imp[p].lessons_data) : imp[p].lessons_data[k].day # r.day
              /\ r \notin schedule

\* the lessons whose insert succeeded
Succeeded(p) ==
    {k \in 1..Len(imp[p].lessons_data) :
        \E n \in 1..Len(imp[p].ops) :
            imp[p].ops[n].op = "upsert" /\ imp[p].ops[n].idx = k /\ imp[p].ops[n].ok}

\* two lessons of the list with one key
Collide(lessons, j, k) == j < k /\ SameKey(lessons[j], lessons[k])

\* C3 as claimed (last write wins): after an import that went through its
\* insert loop and returned True, when two extracted lessons have the same
\* key, exactly one row has that key and it carries subject, teacher and
\* room of the later lesson of the list
C3_LastWriteWins ==
    \A p \in Procs : (Done(p) /\ imp[p].ret = "True") =>
        \A k \in LastOfKey(imp[p].lessons_data) :
            (\E j \in 1..Len(imp[p].lessons_data) : Collide(imp[p].lessons_data, j, k)) =>
                KeyRows(schedule, imp[p].lessons_data[k]) = {RowOf(imp[p].lessons_data[k])}

\* C3 amended (last successful write wins): after the import, a key of
\* the extracted lessons with at least one successful insert has exactly
\* one row, which carries subject, teacher and room of the last lesson of
\* that key whose insert succeeded; with the later insert successful that
\* is the later lesson
C3_LastSuccessfulWriteWins ==
    \A p \in Procs : Done(p) =>
        \A k \in Succeeded(p) :
            (~\E j \in Succeeded(p) : Collide(imp[p].lessons_data, k, j)) =>
                KeyRows(schedule, imp[p].lessons_data[k]) = {RowOf(imp[p].lessons_data[k])}

\* two lessons with one key and different subjects were both inserted
C3_Witness ==
    \E p \in Procs :
        /\ Done(p)
        /\ \E j, k \in Succeeded(p) :
              /\ Collide(imp[p].lessons_data, j, k)
              /\ imp[p].lessons_data[j].subject # imp[p].lessons_data[k].subject
              /\ KeyRows(schedule, imp[p].lessons_data[k]) = {RowOf(imp[p].lessons_data[k])}

\* C4 (failures do not abort the batch): once the first insert has been
\* attempted the import ends only after every lesson was attempted once,
\* in list order; it then returns True, error_count is the number of
\* failed inserts, imported_count the number of successful ones, and the
\* two add up to the length of the list; no delete follows an insert
C4_BatchNotAborted ==
    \A p \in Procs :
        /\ \A n \in 1..Len(UpsertOps(p)) : UpsertOps(p)[n].idx = n
        /\ imp[p].error_count = Cardinality({n \in 1..Len(UpsertOps(p)) : ~UpsertOps(p)[n].ok})
        /\ imp[p].imported_count = Cardinality({n \in 1..Len(UpsertOps(p)) : UpsertOps(p)[n].ok})
        /\ (Done(p) /\ UpsertOps(p) # <<>>) =>
              /\ Len(UpsertOps(p)) = Len(imp[p].lessons_data)
              /\ imp[p].imported_count + imp[p].error_count = Len(imp[p].lessons_data)
              /\ imp[p].ret = "True"

\* an import ended after a failed insert that was followed by a
\* successful one
C4_Witness ==
    \E p \in Procs :
        /\ Done(p) /\ imp[p].ret = "True"
        /\ \E m, n \in 1..Len(UpsertOps(p)) :
              m < n /\ ~UpsertOps(p)[m].ok /\ UpsertOps(p)[n].ok
        /\ imp[p].error_count >= 1 /\ imp[p].imported_count >= 1

StageOrder == <<"select_sheet", "find_header", "find_days", "extract", "merge">>
Ran(p, stage) == \E n \in 1..Len(imp[p].stages) : imp[p].stages[n] = stage
ParseFailures == {"SheetNotFound", "HeaderNotFound", "NoClassColumns",
                  "DayBlockNotFound", "EmptyResult"}

\* the results of the locator stages on the workbook of the invocation
SheetFound(p) == _select_sheet(SheetNames(imp[p].book), imp[p].shift).some
HeaderFound(p) == _find_class_header_row(imp[p].df).some
DaysFound(p) == _find_day_rows(imp[p].df) # <<>>

\* C5 (pipeline failures are terminal and touch no storage): the stages
\* run in the order sheet selection, header, day rows, extraction, merge;
\* with no sheet, no header row, no day row or no lesson the later stages
\* do not run, no statement is issued and the table is as before the call.
\* The workbook of an invocation never changes, so the stage results are
\* compared up to the first statement of the merge.
C5_FailuresTouchNoStorage ==
    \A p \in Procs : imp[p].pc # "idle" =>
        /\ imp[p].stages = SubSeq(StageOrder, 1, Len(imp[p].stages))
        /\ Len(imp[p].ops) <= 1 =>
              /\ Ran(p, "find_header") => SheetFound(p)
              /\ Ran(p, "find_days") => HeaderFound(p)
              /\ Ran(p, "extract") => DaysFound(p)
        /\ Ran(p, "merge") => imp[p].lessons_data # <<>>
        /\ ~Ran(p, "merge") => (imp[p].ops = <<>> /\ schedule = imp[p].before)
        /\ imp[p].failure \in ParseFailures =>
              (Done(p) /\ imp[p].ret = "False" /\ ~Ran(p, "merge"))

\* an import of a workbook with a header row and no day row has ended,
\* the table holding rows
C5_Witness ==
    \E p \in Procs :
        /\ Done(p) /\ imp[p].failure = "DayBlockNotFound"
        /\ imp[p].before # {}
        /\ imp[p].stages = <<"select_sheet", "find_header", "find_days">>

\* the tuples get_schedule returns for the class and day of lesson l at
\* the lesson number of l
ReadBack(tbl, l) ==
    LET rows == get_schedule(tbl, l.class, l.day)
    IN  {rows[n] : n \in {m \in 1..Len(rows) : rows[m][1] = l.lesson_number}}

\* the successful inserts of p whose lesson has no later lesson of the
\* same key in the list
FinalWrites(p) ==
    {n \in 1..Len(imp[p].ops) :
        /\ imp[p].ops[n].op = "upsert" /\ imp[p].ops[n].ok
        /\ ~\E j \in (imp[p].ops[n].idx + 1)..Len(imp[p].lessons_data) :
               SameKey(imp[p].lessons_data[imp[p].ops[n].idx], imp[p].lessons_data[j])}

\* C17 (round trip): once a lesson with no later lesson of its key in the
\* list is inserted, get_schedule for its class and day returns at its
\* lesson number one tuple, with the subject, teacher and room inserted
C17_RoundTrip ==
    \A p \in Procs : \A n \in FinalWrites(p) :
        LET l == imp[p].lessons_data[imp[p].ops[n].idx]
        IN  ReadBack(schedule, l) = {<<l.lesson_number, l.subject, l.teacher, l.room>>}

\* an import has finished in which a lesson with a room overwrote an
\* earlier lesson of its key and is read back
C17_Witness ==
    \E p \in Procs :
        /\ Done(p) /\ imp[p].ret = "True"
        /\ \E n \in FinalWrites(p) :
            LET k == imp[p].ops[n].idx
            IN  /\ \E j \in 1..(k - 1) : Collide(imp[p].lessons_data, j, k)
                /\ imp[p].lessons_data[k].room # <<>>
                /\ ReadBack(schedule, imp[p].lessons_data[k]) # {}

(***************************************************************************)
(* _select_sheet on the sheet names of a workbook                          *)
(***************************************************************************)
Sheet2 == <<"2", " ">> \o SMENA_UPPER
Sheet2Title == <<"2", " ">> \o SMENA_TITLE
Sheet1Lower == <<"1", " ">> \o SMENA_LOWER
Sheet2Noted == <<"x", " ", "2", " ">> \o SMENA_LOWER
SmenaTwo == SMENA_TITLE \o <<" ", "2">>
ListOne == <<"L", "i", "s", "t", "1">>
ListTwo == <<"L", "i", "s", "t", "2">>
SheetVocab == {Sheet1, Sheet2, Sheet2Title, Sheet1Lower, Sheet2Noted,
               SmenaTwo, ListOne, ListTwo}

\* the most sheets of a workbook
MaxSheets == 2

\* a workbook names no two sheets alike, letter case ignored
SheetLists ==
    {names \in SeqsUpTo(SheetVocab, MaxSheets) :
        \A i, j \in 1..Len(names) : i # j => Lower(names[i]) # Lower(names[j])}

InitSheet ==
    /\ schedule = {}
    /\ imp = [p \in Procs |-> IdleImport]
    /\ edit = IdleEdit
    /\ bot = IdleBot
    /\ fin \in {[fn |-> "select_sheet", sheet_names |-> names, shift |-> shift] :
                   names \in SheetLists, shift \in Shifts}
    /\ fout = Pending

CallSelectSheet ==
    /\ fin.fn = "select_sheet"
    /\ ~fout.called
    /\ fout' = [called |-> TRUE, ret |-> _select_sheet(fin.sheet_names, fin.shift)]
    /\ UNCHANGED <<schedule, imp, edit, fin, bot>>

NextSheet == CallSelectSheet

SpecSheet == InitSheet /\ [][NextSheet]_vars

\* the four candidate names built from the shift
ShiftTemplates(shift) == SubSeq(possible_sheet_names(shift), 1, 4)
ExactOfShift(names, shift) ==
    {k \in 1..4 : InList(ShiftTemplates(shift)[k], names)}
ContainsOfShift(names, shift) ==
    {i \in 1..Len(names) :
        \E k \in 1..4 : Contains(Lower(names[i]), Lower(ShiftTemplates(shift)[k]))}

\* C7 as claimed (the sheet of the requested shift): the result is the
\* first candidate built from the shift that is a sheet name; with no
\* such candidate, a sheet whose name contains a candidate built from the
\* shift, letter case ignored; the first sheet only when no sheet matches
\* a candidate of the shift in either way
C7_SheetOfRequestedShift ==
    (fin.fn = "select_sheet" /\ fout.called) =>
        IF ExactOfShift(fin.sheet_names, fin.shift) # {}
        THEN fout.ret = Some(ShiftTemplates(fin.shift)[Min(ExactOfShift(fin.sheet_names, fin.shift))])
        ELSE IF ContainsOfShift(fin.sheet_names, fin.shift) # {}
        THEN /\ fout.ret.some
             /\ \E i \in ContainsOfShift(fin.sheet_names, fin.shift) :
                   fout.ret.val = fin.sheet_names[i]
        ELSE fin.sheet_names # <<>> => fout.ret = Some(fin.sheet_names[1])

\* C8 (no sheet only for no sheets): the result is None exactly when the
\* list of sheet names is empty, and otherwise a name of the list
C8_NoneOnlyWhenEmpty ==
    (fin.fn = "select_sheet" /\ fout.called) =>
        /\ ~fout.ret.some <=> fin.sheet_names = <<>>
        /\ fin.sheet_names # <<>> => InList(fout.ret.val, fin.sheet_names)

\* two sheets, none matching a candidate: the first sheet was returned
C8_Witness ==
    /\ fin.fn = "select_sheet" /\ fout.called
    /\ Len(fin.sheet_names) = 2
    /\ ExactCandidates(fin.sheet_names, fin.shift) = {}
    /\ SubstringSheets(fin.sheet_names, fin.shift) = {}
    /\ fout.ret = Some(fin.sheet_names[1])

(***************************************************************************)
(* _extract_class_name on the text of a header cell                        *)
(***************************************************************************)
\* the class grammar: a digit 5 to 9 and a letter A, B or V; 10P, 10R, 11R
ClassGrammar ==
    {<<d, l>> : d \in {"5", "6", "7", "8", "9"}, l \in {"A", "B", "V"}}
        \cup { <<"1", "0", "P">>, <<"1", "0", "R">>, <<"1", "1", "R">> }

CellAlphabet == {"0", "1", "5", "A", "a", "P", "R", "x", " ", "No"}
\* the longest cell text tried besides the grammar itself
MaxCellLen == 3
CellTexts == ClassGrammar \cup SeqsUpTo(CellAlphabet, MaxCellLen)

InitClass ==
    /\ schedule = {}
    /\ imp = [p \in Procs |-> IdleImport]
    /\ edit = IdleEdit
    /\ bot = IdleBot
    /\ fin \in {[fn |-> "extract_class_name", text |-> t] : t \in CellTexts}
    /\ fout = Pending

CallExtractClassName ==
    /\ fin.fn = "extract_class_name"
    /\ ~fout.called
    /\ fout' = [called |-> TRUE, ret |-> _extract_class_name(fin.text)]
    /\ UNCHANGED <<schedule, imp, edit, fin, bot>>

NextClass == CallExtractClassName

SpecClass == InitClass /\ [][NextClass]_vars

\* C9 as claimed (grammar coverage): a text of the class grammar yields
\* that class; a text outside the grammar, also with letter case and
\* surrounding blanks set aside, yields no class
C9_GrammarCoverage ==
    (fin.fn = "extract_class_name" /\ fout.called) =>
        /\ fin.text \in ClassGrammar => fout.ret = Some(fin.text)
        /\ Upper(Strip(fin.text)) \notin ClassGrammar => ~fout.ret.some

(***************************************************************************)
(* parse_excel_schedule on a workbook                                      *)
(***************************************************************************)
N10 == <<"1", "0">>
ParseRows ==
    { HeaderRow,
      <<Sreda, N10, Mat, NaN>>,
      <<NaN, NaN, Fiz, Mat>>,
      <<Vtornik, NaN, NaN, NaN>>,
      <<NaN, NaN, NaN, NaN>>,
      <<NaN, N1, NaN, Fiz>> }

\* the longest grid parsed
MaxParseRows == 4

ParseBooks ==
    {<<>>} \cup {<<[name |-> Sheet1, grid |-> g]>> : g \in SeqsUpTo(ParseRows, MaxParseRows)}

InitParse ==
    /\ schedule = {}
    /\ imp = [p \in Procs |-> IdleImport]
    /\ edit = IdleEdit
    /\ bot = IdleBot
    /\ fin \in {[fn |-> "parse", book |-> b, shift |-> <<"1">>] : b \in ParseBooks}
    /\ fout = Pending

CallParse ==
    /\ fin.fn = "parse"
    /\ ~fout.called
    /\ fout' = [called |-> TRUE, ret |-> parse_excel_schedule(fin.book, fin.shift)]
    /\ UNCHANGED <<schedule, imp, edit, fin, bot>>

NextParse == CallParse

SpecParse == InitParse /\ [][NextParse]_vars

\* the grid of the sheet the parser reads
ParsedGrid == ReadExcel(fin.book, _select_sheet(SheetNames(fin.book), fin.shift).val)
\* the lessons of all day blocks of that grid
LessonsOfGrid ==
    DaysFrom(ParsedGrid, _find_day_rows(ParsedGrid), 1,
             _extract_class_columns(ParsedGrid, _find_class_header_row(ParsedGrid).val), fin.shift)

\* C6 (a non-empty list or a failure): the result is never an empty list,
\* and it is None exactly when no sheet is selected, or no header row is
\* found, or no day row is found, or the day blocks yield no lesson
C6_NonEmptyOrFailure ==
    (fin.fn = "parse" /\ fout.called) =>
        /\ fout.ret.some => fout.ret.val # <<>>
        /\ ~fout.ret.some <=>
              \/ ~_select_sheet(SheetNames(fin.book), fin.shift).some
              \/ ~_find_class_header_row(ParsedGrid).some
              \/ _find_day_rows(ParsedGrid) = <<>>
              \/ LessonsOfGrid = <<>>
        /\ fout.ret.some => fout.ret.val = LessonsOfGrid

\* a grid with a header row and a day row and no lesson was parsed
C6_Witness ==
    /\ fin.fn = "parse" /\ fout.called /\ ~fout.ret.some
    /\ fin.book # <<>>
    /\ _find_class_header_row(ParsedGrid).some
    /\ _find_day_rows(ParsedGrid) # <<>>

\* C10 as claimed (lesson numbers in range): every lesson of the result
\* has a lesson_number in 1..10
C10_LessonNumberInRange ==
    (fin.fn = "parse" /\ fout.called /\ fout.ret.some) =>
        \A k \in 1..Len(fout.ret.val) :
            fout.ret.val[k].lesson_number \in MinLesson..MaxLesson

(***************************************************************************)
(* The day blocks of _parse_method3 and _parse_day_schedule on each        *)
(***************************************************************************)
\* the block of day_rows[k]: its bounds, the lessons _parse_day_schedule
\* returns for it and the running counter it leaves
DayBlock(df, day_rows, k, class_columns, shift) ==
    LET end_row == EndRow(df, day_rows, k)
        loop == DayLoop(df, day_rows[k][2], MinOf(end_row, NRows(df)), 1,
                        class_columns, shift, day_rows[k][1])
    IN  [day |-> day_rows[k][1], start_row |-> day_rows[k][2], end_row |-> end_row,
         lessons |-> _parse_day_schedule(df, day_rows[k][2], end_row,
                                         class_columns, shift, day_rows[k][1]),
         current_lesson_num |-> loop.current_lesson_num]

\* the loop of _parse_method3 over day_rows, block by block; no block when
\* the header row is not found
DayBlocks(df, shift) ==
    IF ~_find_class_header_row(df).some THEN <<>>
    ELSE LET class_columns == _extract_class_columns(df, _find_class_header_row(df).val)
             day_rows == _find_day_rows(df)
         IN  [k \in 1..Len(day_rows) |-> DayBlock(df, day_rows, k, class_columns, shift)]

\* cell texts of a timetable with a room column after the column of 5A
Him == <<"H", "i", "m", "i", "ya">>
Ivanov == <<"I", "v", "a", "n", "o", "v">>
Fizika == <<"F", "i", "z", "i", "k", "a">>
R201 == <<"2", "0", "1">>
R301 == <<"3", "0", "1">>
TeacherOnly == <<"(">> \o Ivanov \o <<")">>
FizCell == Fizika \o <<" ", "(">> \o Ivanov \o <<")", " ", "-", " ">> \o R201
Dash == <<"-">>
LongDash == <<"--">>
Blank == <<" ">>
Empty == <<>>
N11 == <<"1", "1">>
N0 == <<"0">>
HeaderRow5 == <<NaN, NaN, T5A, NaN, T6B>>
BlockRows ==
    { <<Sreda, N1, Him, R301, NaN>>,
      <<NaN, NaN, TeacherOnly, NaN, Dash>>,
      <<NaN, N11, FizCell, NaN, LongDash>>,
      <<NaN, N0, Blank, NaN, Him>>,
      <<Vtornik, NaN, Empty, NaN, Sreda>>,
      <<Vtornik, NaN, Sreda, NaN, NaN>>,
      <<NaN, NaN, NaN, NaN, NaN>>,
      <<NaN, NaN, Him, NaN, Mat>>,
      <<NaN, N1, Dash, NaN, NaN>>,
      <<NaN, Blank, Empty, NaN, NaN>>,
      <<NaN, NaN, Mat, Dash, NaN>> }

\* the most rows below the header row
MaxBlockRows == 3

BlockGrids == {<<HeaderRow5>> \o g : g \in SeqsUpTo(BlockRows, MaxBlockRows)}

InitBlocks ==
    /\ schedule = {}
    /\ imp = [p \in Procs |-> IdleImport]
    /\ edit = IdleEdit
    /\ bot = IdleBot
    /\ fin \in {[fn |-> "blocks", df |-> g, shift |-> <<"1">>] : g \in BlockGrids}
    /\ fout = Pending

CallDayBlocks ==
    /\ fin.fn = "blocks"
    /\ ~fout.called
    /\ fout' = [called |-> TRUE, ret |-> Some(DayBlocks(fin.df, fin.shift))]
    /\ UNCHANGED <<schedule, imp, edit, fin, bot>>

NextBlocks == CallDayBlocks

SpecBlocks == InitBlocks /\ [][NextBlocks]_vars

\* the blocks of the call and the class columns of its grid
Blocks == fout.ret.val
BlocksCalled == fin.fn = "blocks" /\ fout.called
BlockColumns == _extract_class_columns(fin.df, _find_class_header_row(fin.df).val)
BlockRowsOf(b) == b.start_row..(b.end_row - 1)

\* C11 as claimed (no empty subject): every lesson of every day block has
\* a non-empty subject
C11_SubjectNonEmpty ==
    BlocksCalled =>
        \A b \in 1..Len(Blocks) : \A k \in 1..Len(Blocks[b].lessons) :
            Blocks[b].lessons[k].subject # <<>>

\* the cells C12 lists: missing, empty, whitespace only, "-", the long
\* dash, a day name
Placeholder(cell) ==
    \/ ~notna(cell)
    \/ Strip(cell) = <<>>
    \/ Strip(cell) = <<"-">>
    \/ Strip(cell) = <<"--">>
    \/ _is_day_of_week(cell)

\* the class columns of row r whose cell is none of these
LiveCells(df, r, class_columns) ==
    {k \in 1..Len(class_columns) : ~Placeholder(iloc(df, r, class_columns[k][2]))}

\* how many cells of rows r..stop-1 are none of these
RECURSIVE LiveCount(_, _, _, _)
LiveCount(df, r, stop, class_columns) ==
    IF r >= stop THEN 0
    ELSE Cardinality(LiveCells(df, r, class_columns))
            + LiveCount(df, r + 1, stop, class_columns)

\* the running counter after rows r..stop-1 when only rows with such a
\* cell and no number of their own advance it
RECURSIVE CounterAfter(_, _, _, _, _)
CounterAfter(df, r, stop, counter, class_columns) ==
    IF r >= stop THEN counter
    ELSE IF ExplicitNumber(df, r).some
    THEN CounterAfter(df, r + 1, stop, ExplicitNumber(df, r).val, class_columns)
    ELSE IF LiveCells(df, r, class_columns) # {}
    THEN CounterAfter(df, r + 1, stop, counter + 1, class_columns)
    ELSE CounterAfter(df, r + 1, stop, counter, class_columns)

\* C12 (placeholders are skipped): a day block has one lesson for each
\* class cell that is not missing, empty, whitespace, a dash or a day name
\* and none for the others, and its running counter is advanced only by
\* rows that hold such a cell
C12_PlaceholdersSkipped ==
    BlocksCalled =>
        \A b \in 1..Len(Blocks) :
            /\ Len(Blocks[b].lessons)
                 = LiveCount(fin.df, Blocks[b].start_row, Blocks[b].end_row, BlockColumns)
            /\ Blocks[b].current_lesson_num
                 = CounterAfter(fin.df, Blocks[b].start_row, Blocks[b].end_row, 1, BlockColumns)

\* a block was read that has a lesson and a row whose class cells are all
\* placeholders, one of them a dash
C12_Witness ==
    /\ BlocksCalled
    /\ \E b \in 1..Len(Blocks) :
        /\ Blocks[b].lessons # <<>>
        /\ \E r \in BlockRowsOf(Blocks[b]) :
            /\ LiveCells(fin.df, r, BlockColumns) = {}
            /\ \E k \in 1..Len(BlockColumns) :
                   iloc(fin.df, r, BlockColumns[k][2]) = Dash

\* digits, optionally followed by one letter
Letters == {Caps[i] : i \in 1..Len(Caps)} \cup {Smalls[i] : i \in 1..Len(Smalls)}
RoomForm(r) ==
    /\ Len(r) >= 1
    /\ r[1] \in Digits
    /\ \A i \in 1..(Len(r) - 1) : r[i] \in Digits
    /\ r[Len(r)] \in Digits \cup Letters

\* the ways to read a text as "S (T) - R"
SplitForm(t) ==
    {[s |-> SubSeq(t, 1, p - 2), t |-> SubSeq(t, p + 1, q - 1), r |-> SubSeq(t, q + 4, Len(t))] :
        <<p, q>> \in {pq \in (1..Len(t)) \X (1..Len(t)) :
            /\ 2 < pq[1] /\ pq[1] < pq[2] /\ pq[2] + 3 < Len(t)
            /\ t[pq[1]] = "(" /\ t[pq[1] - 1] = " " /\ t[pq[2]] = ")"
            /\ t[pq[2] + 1] = " " /\ t[pq[2] + 2] = "-" /\ t[pq[2] + 3] = " "
            /\ \A i \in 1..Len(t) : (t[i] = "(" => i = pq[1]) /\ (t[i] = ")" => i = pq[2])
            /\ RoomForm(SubSeq(t, pq[2] + 4, Len(t)))}}

\* C13 as claimed (decomposition): a class cell "S (T) - R" of a day block
\* gives a lesson of its class with subject S, teacher T and room R
C13_CellDecomposition ==
    BlocksCalled =>
        \A b \in 1..Len(Blocks) : \A r \in BlockRowsOf(Blocks[b]) :
            \A k \in 1..Len(BlockColumns) :
                LET cell == iloc(fin.df, r, BlockColumns[k][2])
                IN  notna(cell) =>
                      \A parts \in SplitForm(Strip(cell)) :
                          \E n \in 1..Len(Blocks[b].lessons) :
                              /\ Blocks[b].lessons[n].class = BlockColumns[k][1]
                              /\ Blocks[b].lessons[n].subject = parts.s
                              /\ Blocks[b].lessons[n].teacher = parts.t
                              /\ Blocks[b].lessons[n].room = parts.r

\* a class cell that holds a subject and nothing else, with a room text in
\* the next column of its row
SubjectWithRoomBeside(df, r, col_idx) ==
    /\ ~Placeholder(iloc(df, r, col_idx))
    /\ \A i \in 1..Len(iloc(df, r, col_idx)) : iloc(df, r, col_idx)[i] \notin {"(", ")", "-"}
    /\ col_idx + 1 < NCols(df)
    /\ notna(iloc(df, r, col_idx + 1))
    /\ RoomForm(Strip(iloc(df, r, col_idx + 1)))

\* C14 (fallback room): a class cell that holds only a subject, with a
\* room text in the next column of the same row, gives a lesson of its
\* class with the cell's text as subject, that room and no teacher
C14_FallbackRoom ==
    BlocksCalled =>
        \A b \in 1..Len(Blocks) : \A r \in BlockRowsOf(Blocks[b]) :
            \A k \in 1..Len(BlockColumns) :
                SubjectWithRoomBeside(fin.df, r, BlockColumns[k][2]) =>
                    \E n \in 1..Len(Blocks[b].lessons) :
                        /\ Blocks[b].lessons[n].class = BlockColumns[k][1]
                        /\ Blocks[b].lessons[n].subject = Strip(iloc(fin.df, r, BlockColumns[k][2]))
                        /\ Blocks[b].lessons[n].room = Strip(iloc(fin.df, r, BlockColumns[k][2] + 1))
                        /\ Blocks[b].lessons[n].teacher = <<>>

\* a block was read with a subject cell and the room 301 beside it
C14_Witness ==
    /\ BlocksCalled
    /\ \E b \in 1..Len(Blocks) : \E r \in BlockRowsOf(Blocks[b]) :
        \E k \in 1..Len(BlockColumns) :
            /\ SubjectWithRoomBeside(fin.df, r, BlockColumns[k][2])
            /\ iloc(fin.df, r, BlockColumns[k][2] + 1) = R301
            /\ \E n \in 1..Len(Blocks[b].lessons) : Blocks[b].lessons[n].room = R301

\* the rows whose lesson-number cell holds a number outside 1..10
OutOfRangeRows(df) ==
    {r \in 0..(NRows(df) - 1) :
        /\ NCols(df) > LessonNumCol
        /\ notna(iloc(df, r, LessonNumCol))
        /\ FirstNumber(Strip(iloc(df, r, LessonNumCol))).some
        /\ IntOf(FirstNumber(Strip(iloc(df, r, LessonNumCol))).val) \notin MinLesson..MaxLesson}

\* the grid with the lesson-number cell of row r left empty
WithoutNumber(df, r) == [df EXCEPT ![r + 1][LessonNumCol + 1] = NaN]

\* C15 (numbers outside 1..10 are ignored): the blocks, their lessons with
\* their numbers and their running counters are those of the grid in which
\* the lesson-number cell with the number outside 1..10 is empty
C15_OutOfRangeIgnored ==
    BlocksCalled =>
        \A r \in OutOfRangeRows(fin.df) :
            Blocks = DayBlocks(WithoutNumber(fin.df, r), fin.shift)

\* a row numbered 11 with a lesson was read after the counter had
\* advanced, and its lesson has the number 2
C15_Witness ==
    /\ BlocksCalled
    /\ \E b \in 1..Len(Blocks) : \E r \in BlockRowsOf(Blocks[b]) :
        /\ r \in OutOfRangeRows(fin.df)
        /\ iloc(fin.df, r, LessonNumCol) = N11
        /\ \E n \in 1..Len(Blocks[b].lessons) :
            /\ Blocks[b].lessons[n].teacher = Ivanov
            /\ Blocks[b].lessons[n].lesson_number = 2

\* C16 (day blocks by ascending row): the start rows of the blocks are
\* the rows with a day name in the leading columns, each once and in
\* ascending order whatever the days are; a block ends where the next
\* starts and the last ends at the row count, so no row is in two blocks
C16_BlocksAscendingDisjoint ==
    BlocksCalled =>
        /\ \A b \in 1..(Len(Blocks) - 1) :
            /\ Blocks[b].start_row < Blocks[b + 1].start_row
            /\ Blocks[b].end_row = Blocks[b + 1].start_row
        /\ Len(Blocks) > 0 => Blocks[Len(Blocks)].end_row = NRows(fin.df)
        /\ {Blocks[b].start_row : b \in 1..Len(Blocks)}
             = {r \in 0..(NRows(fin.df) - 1) : DayColOfRow(fin.df, r) # {}}
        /\ \A r \in 0..(NRows(fin.df) - 1) :
            Cardinality({b \in 1..Len(Blocks) : r \in BlockRowsOf(Blocks[b])}) <= 1

\* blocks were built for Wednesday and then Tuesday, the second from a
\* row with two day names
C16_Witness ==
    /\ BlocksCalled
    /\ \E b \in 1..(Len(Blocks) - 1) :
        /\ Blocks[b].day = "wednesday"
        /\ Blocks[b + 1].day = "tuesday"
        /\ iloc(fin.df, Blocks[b + 1].start_row, 2) = Sreda

(***************************************************************************)
(* Imports and manual edits (handle_schedule_input, save_schedule), one    *)
(* handler at a time as run() takes the updates.  save_schedule commits    *)
(* its DELETE and each INSERT on its own; an error in any of them ends it. *)
(***************************************************************************)
\* the lengths save_schedule cuts subject, teacher and room to
SubjectMax == 100
TeacherMax == 50
RoomMax == 20

\* t[:n]
Cut(t, n) == SubSeq(t, 1, MinOf(Len(t), n))

\* DELETE FROM schedule WHERE class = ? AND day = ?
DeleteClassDay(tbl, class_name, day) ==
    {r \in tbl : ~(r.class = class_name /\ r.day = day)}

\* the values save_schedule inserts for the tuple
\* (lesson_num, subject, teacher, room)
SavedLesson(class_name, day, t) ==
    [class |-> class_name, day |-> day, lesson_number |-> t[1],
     subject |-> Cut(t[2], SubjectMax), teacher |-> Cut(t[3], TeacherMax),
     room |-> Cut(t[4], RoomMax)]

\* the tuples handle_schedule_input builds from the lines of a message
EditTuples ==
    { <<1, Him, <<>>, <<>>>>, <<1, Fizika, Ivanov, R201>>, <<2, Mat, <<>>, <<>>>> }
\* the most lines of a message
MaxEditLessons == 2
EditLists == SeqsUpTo(EditTuples, MaxEditLessons)
EditClasses == {T5A}
EditDays == {"wednesday"}

\* the workbooks sent between the edits
EditBooks ==
    { <<[name |-> Sheet1, grid |-> <<HeaderRow, <<Sreda, N1, Mat, NaN>>, <<NaN, N1, Fiz, NaN>>>>]>>,
      <<[name |-> Sheet1, grid |-> <<HeaderRow, <<Sreda, NaN, Fiz, Mat>>, <<Vtornik, NaN, NaN, Fiz>>>>]>> }

\* the most handlers run one after the other
MaxCalls == 2

NoHandlerRunning == edit.pc = "idle" /\ \A p \in Procs : imp[p].pc = "idle"

\* a workbook arrives: process_update calls import_schedule_from_excel
EditImportStart(p) ==
    /\ NoHandlerRunning
    /\ edit.returned < MaxCalls
    /\ ImportStartOf(p, EditBooks, {<<"1">>})

\* the import has returned: the record of the invocation is dropped
ImportReturn(p) ==
    /\ imp[p].pc = "done"
    /\ imp' = [imp EXCEPT ![p] = IdleImport]
    /\ edit' = [edit EXCEPT !.returned = @ + 1]
    /\ UNCHANGED <<schedule, fin, fout, bot>>

\* handle_schedule_input calls save_schedule(class_name, day_code, lessons)
SaveStart ==
    /\ NoHandlerRunning
    /\ edit.returned < MaxCalls
    /\ \E class_name \in EditClasses, day \in EditDays, lessons \in EditLists :
           edit' = [IdleEdit EXCEPT !.pc = "delete", !.class = class_name, !.day = day,
                                    !.lessons = lessons, !.returned = edit.returned,
                                    !.before = schedule]
    /\ UNCHANGED <<schedule, imp, fin, fout, bot>>

\* the DELETE of the class and day
SaveDeleteOk ==
    /\ edit.pc = "delete"
    /\ schedule' = DeleteClassDay(schedule, edit.class, edit.day)
    /\ edit' = [edit EXCEPT !.pc = IF edit.lessons = <<>> THEN "done" ELSE "insert",
                            !.ret = IF edit.lessons = <<>> THEN "True" ELSE "none",
                            !.ops = Append(@, [op |-> "delete", idx |-> 0, ok |-> TRUE])]
    /\ UNCHANGED <<imp, fin, fout, bot>>

\* the DELETE raises: save_schedule returns False
SaveDeleteRaise ==
    /\ edit.pc = "delete"
    /\ edit' = [edit EXCEPT !.pc = "done", !.ret = "False",
                            !.ops = Append(@, [op |-> "delete", idx |-> 0, ok |-> FALSE])]
    /\ UNCHANGED <<schedule, imp, fin, fout, bot>>

\* the INSERT of the next tuple
SaveInsertOk ==
    /\ edit.pc = "insert"
    /\ schedule' = Upsert(schedule, SavedLesson(edit.class, edit.day, edit.lessons[edit.next]))
    /\ edit' = [edit EXCEPT !.next = @ + 1,
                            !.pc = IF edit.next >= Len(edit.lessons) THEN "done" ELSE "insert",
                            !.ret = IF edit.next >= Len(edit.lessons) THEN "True" ELSE "none",
                            !.ops = Append(@, [op |-> "insert", idx |-> edit.next, ok |-> TRUE])]
    /\ UNCHANGED <<imp, fin, fout, bot>>

\* the INSERT raises: save_schedule returns False, the rest is not inserted
SaveInsertRaise ==
    /\ edit.pc = "insert"
    /\ edit' = [edit EXCEPT !.pc = "done", !.ret = "False",
                            !.ops = Append(@, [op |-> "insert", idx |-> edit.next, ok |-> FALSE])]
    /\ UNCHANGED <<schedule, imp, fin, fout, bot>>

\* save_schedule has returned and the handler ends
SaveReturn ==
    /\ edit.pc = "done"
    /\ edit' = [IdleEdit EXCEPT !.returned = edit.returned + 1]
    /\ UNCHANGED <<schedule, imp, fin, fout, bot>>

\* the table after create_tables on a new database
InitEdits ==
    /\ schedule = {}
    /\ imp = [p \in Procs |-> IdleImport]
    /\ edit = IdleEdit
    /\ bot = IdleBot
    /\ fin = NoArgs
    /\ fout = Pending

NextEdits ==
    \/ \E p \in SeqProcs :
        \/ EditImportStart(p)
        \/ SelectSheetStep(p)
        \/ LocateHeaderStep(p)
        \/ LocateDaysStep(p)
        \/ ExtractStep(p)
        \/ \E c \in imp[p].imported_classes : DeleteOk(p, c)
        \/ \E c \in imp[p].imported_classes : DeleteRaise(p, c)
        \/ UpsertOk(p)
        \/ UpsertRaise(p)
        \/ ImportReturn(p)
    \/ SaveStart
    \/ SaveDeleteOk
    \/ SaveDeleteRaise
    \/ SaveInsertOk
    \/ SaveInsertRaise
    \/ SaveReturn

SpecEdits == InitEdits /\ [][NextEdits]_vars

\* C18 (one entry per key): in every state of every sequence of imports
\* and edits, two rows of the table with the same class, day and
\* lesson_number are the same row
C18_OneEntryPerKey ==
    \A r \in schedule : \A q \in schedule : SameKey(r, q) => r = q

\* an edit with two tuples of one lesson number has inserted both, after
\* an import had filled that key
C18_Witness ==
    /\ edit.pc = "done" /\ edit.ret = "True" /\ edit.returned >= 1
    /\ Len(edit.lessons) = 2
    /\ edit.lessons[1][1] = edit.lessons[2][1]
    /\ edit.lessons[1] # edit.lessons[2]
    /\ \E r \in edit.before :
           SameKey(r, SavedLesson(edit.class, edit.day, edit.lessons[1]))
    /\ \E r \in schedule : r.class # edit.class

(***************************************************************************)
(* Two imports at once, as two instances of the bot on one database run    *)
(* them: the statements of the two interleave, each committed on its own   *)
(***************************************************************************)
\* workbooks of class 5A alone, of class 6B alone, of class 5A with two
\* lessons
ConcBooks ==
    { <<[name |-> Sheet1, grid |-> <<HeaderRow, <<Sreda, NaN, Mat, NaN>>>>]>>,
      <<[name |-> Sheet1, grid |-> <<HeaderRow, <<Sreda, NaN, NaN, Fiz>>>>]>>,
      <<[name |-> Sheet1, grid |-> <<HeaderRow, <<Sreda, NaN, Fiz, NaN>>,
                                     <<NaN, NaN, Mat, NaN>>>>]>> }

\* the table the two imports find
ConcTable ==
    { StoredRow(T5A, "wednesday", 1, Him), StoredRow(T5A, "friday", 2, Mat),
      StoredRow(T6B, "wednesday", 1, Him) }

\* a workbook arrives at the instance p
ConcImportStart(p) ==
    /\ imp[p].pc = "idle"
    /\ ImportStartOf(p, ConcBooks, {<<"1">>})

InitConc ==
    /\ schedule = ConcTable
    /\ imp = [p \in Procs |-> IdleImport]
    /\ edit = IdleEdit
    /\ bot = IdleBot
    /\ fin = NoArgs
    /\ fout = Pending

NextConc ==
    \E p \in Procs :
        \/ ConcImportStart(p)
        \/ SelectSheetStep(p)
        \/ LocateHeaderStep(p)
        \/ LocateDaysStep(p)
        \/ ExtractStep(p)
        \/ \E c \in imp[p].imported_classes : DeleteOk(p, c)
        \/ \E c \in imp[p].imported_classes : DeleteRaise(p, c)
        \/ UpsertOk(p)
        \/ UpsertRaise(p)

SpecConc == InitConc /\ [][NextConc]_vars

\* the table after the statements ops[n..] of an import with the given
\* lessons, run on tbl with the outcome each statement had
RECURSIVE ReplayFrom(_, _, _, _)
ReplayFrom(tbl, lessons, ops, n) ==
    IF n > Len(ops) THEN tbl
    ELSE IF ~ops[n].ok THEN ReplayFrom(tbl, lessons, ops, n + 1)
    ELSE IF ops[n].op = "delete"
    THEN ReplayFrom(DeleteClass(tbl, ops[n].class), lessons, ops, n + 1)
    ELSE ReplayFrom(Upsert(tbl, lessons[ops[n].idx]), lessons, ops, n + 1)

\* the import of p run alone on tbl
Alone(tbl, p) == ReplayFrom(tbl, imp[p].lessons_data, imp[p].ops, 1)

\* C19 (disjoint imports commute): when the two imports have no class in
\* common, the table at every point of every interleaving is the table
\* that the statements of the one followed by the statements of the other
\* give, in either order; so is the final table
C19_DisjointImportsCommute ==
    Extracted("p1") \cap Extracted("p2") = {} =>
        /\ schedule = Alone(Alone(ConcTable, "p1"), "p2")
        /\ schedule = Alone(Alone(ConcTable, "p2"), "p1")

\* the two imports, one of class 5A and one of class 6B, have both issued
\* their DELETE and neither has issued its INSERT yet
C19_Witness ==
    /\ imp["p1"].pc = "upsert" /\ imp["p2"].pc = "upsert"
    /\ Extracted("p1") = {T5A} /\ Extracted("p2") = {T6B}
    /\ Len(imp["p1"].ops) = 1 /\ imp["p1"].ops[1].ok
    /\ Len(imp["p2"].ops) = 1 /\ imp["p2"].ops[1].ok
    /\ schedule = {}

\* every statement of p succeeded
AllOk(p) == \A n \in 1..Len(imp[p].ops) : imp[p].ops[n].ok

\* the rows an import alone leaves for class c
RecordSet(p, c) == RowsOfClass(Alone({}, p), c)

\* C20 as claimed (last writer wins): when two imports with a common class
\* have both finished, every statement successful, the rows of that class
\* are the rows of one of the two imports
C20_LastWriterWins ==
    (/\ Done("p1") /\ Done("p2")
     /\ imp["p1"].ret = "True" /\ imp["p2"].ret = "True"
     /\ AllOk("p1") /\ AllOk("p2")) =>
        \A c \in Extracted("p1") \cap Extracted("p2") :
            \/ RowsOfClass(schedule, c) = RecordSet("p1", c)
            \/ RowsOfClass(schedule, c) = RecordSet("p2", c)

(***************************************************************************)
(* _find_class_header_row on grids longer than its window                  *)
(***************************************************************************)
\* rows of two cells: no class, one class, two classes, two texts of a
\* digit and a section letter that name no class of the school
NoClassRow == <<NaN, Mat>>
OneClassRow == <<T5A, Mat>>
TwoClassRow == <<T5A, T6B>>
LooseRow == << <<"1", "A">>, <<"2", "B">> >>
MarkedRows == {OneClassRow, TwoClassRow, LooseRow}

\* the most rows of a grid
MaxHeaderRows == 17

\* the grid of n rows without a class, but for row a and row b
MarkedGrid(n, a, ra, b, rb) ==
    [i \in 1..n |-> IF i = a + 1 THEN ra ELSE IF i = b + 1 THEN rb ELSE NoClassRow]

HeaderGrids ==
    {MarkedGrid(n, ab[1], rr[1], ab[2], rr[2]) :
        n \in 0..MaxHeaderRows, ab \in (0..MaxHeaderRows) \X (0..MaxHeaderRows),
        rr \in MarkedRows \X MarkedRows}

InitHeader ==
    /\ schedule = {}
    /\ imp = [p \in Procs |-> IdleImport]
    /\ edit = IdleEdit
    /\ bot = IdleBot
    /\ fin \in {[fn |-> "header", df |-> g] : g \in HeaderGrids}
    /\ fout = Pending

CallFindClassHeaderRow ==
    /\ fin.fn = "header"
    /\ ~fout.called
    /\ fout' = [called |-> TRUE, ret |-> _find_class_header_row(fin.df)]
    /\ UNCHANGED <<schedule, imp, edit, fin, bot>>

NextHeader == CallFindClassHeaderRow

SpecHeader == InitHeader /\ [][NextHeader]_vars

\* a cell that names a class of the school once the noise words are
\* stripped
GrammarCell(cell) ==
    notna(cell) /\ Upper(Strip(RemoveNoise(Strip(Lower(cell))))) \in ClassGrammar

\* the rows of the window with at least two such cells
GrammarRows(df) ==
    {i \in 0..(MinOf(HeaderWindow, NRows(df)) - 1) :
        Cardinality({j \in 0..(NCols(df) - 1) : GrammarCell(iloc(df, i, j))})
            >= HeaderMinClasses}

\* C22 as claimed (the header row): the result is the smallest row of the
\* first 15 with at least 2 cells that match the class grammar, and None
\* when the window has no such row
C22_HeaderRowLocated ==
    (fin.fn = "header" /\ fout.called) =>
        fout.ret = IF GrammarRows(fin.df) # {} THEN Some(Min(GrammarRows(fin.df))) ELSE None

(***************************************************************************)
(* _extract_class_columns on the header row                                *)
(***************************************************************************)
Klass5A == <<"5", "a", " ", "k", "l", "a", "s", "s">>
HeaderCells == {NaN, T5A, T6B, Klass5A}
\* the most columns of a header row
MaxHeaderCols == 4

\* the one-row grids whose row _find_class_header_row takes as the header
ColumnGrids ==
    {<<row>> : row \in {r \in SeqsUpTo(HeaderCells, MaxHeaderCols) :
                           _find_class_header_row(<<r>>) = Some(0)}}

InitColumns ==
    /\ schedule = {}
    /\ imp = [p \in Procs |-> IdleImport]
    /\ edit = IdleEdit
    /\ bot = IdleBot
    /\ fin \in {[fn |-> "columns", df |-> g, class_row_idx |-> 0] : g \in ColumnGrids}
    /\ fout = Pending

CallExtractClassColumns ==
    /\ fin.fn = "columns"
    /\ ~fout.called
    /\ fout' = [called |-> TRUE,
                ret |-> Some(_extract_class_columns(fin.df, fin.class_row_idx))]
    /\ UNCHANGED <<schedule, imp, edit, fin, bot>>

NextColumns == CallExtractClassColumns

SpecColumns == InitColumns /\ [][NextColumns]_vars

\* the columns of the header row whose cell yields the class name c
ColumnsNaming(df, i, c) ==
    {j \in 0..(NCols(df) - 1) :
        notna(iloc(df, i, j)) /\ _extract_class_name(Strip(iloc(df, i, j))) = Some(c)}

\* C23 as claimed (left-most duplicate wins): the map has one item per
\* class, and the column of a class is the left-most column whose header
\* cell yields that class
C23_LeftMostColumnKept ==
    (fin.fn = "columns" /\ fout.called) =>
        LET class_columns == fout.ret.val
        IN  /\ \A a \in 1..Len(class_columns) : \A b \in 1..Len(class_columns) :
                   class_columns[a][1] = class_columns[b][1] => a = b
            /\ \A k \in 1..Len(class_columns) :
                   class_columns[k][2]
                     = Min(ColumnsNaming(fin.df, fin.class_row_idx, class_columns[k][1]))

\* a row in which every cell is empty
EmptyRow(row) == \A j \in 1..Len(row) : ~notna(row[j]) \/ Strip(row[j]) = <<>>

\* the counter rule of C24 applied row by row to rows r..stop-1 of a
\* block: the records of each row under the number it uses, and the
\* counter left at the end
RECURSIVE CounterRule(_, _, _, _, _, _, _)
CounterRule(df, r, stop, counter, class_columns, shift, day_name) ==
    IF r >= stop THEN [lessons |-> <<>>, counter |-> counter]
    ELSE LET explicit == ExplicitNumber(df, r)
             used == IF explicit.some THEN explicit.val ELSE counter
             records == RowLessonsFrom(RowAt(df, r), class_columns, 1, used, shift, day_name)
             after == IF explicit.some THEN explicit.val
                      ELSE IF records # <<>> THEN counter + 1
                      ELSE counter
             rest == CounterRule(df, r + 1, stop, after, class_columns, shift, day_name)
         IN  [lessons |-> records \o rest.lessons, counter |-> rest.counter]

\* C24 (the running counter): in each day block the counter starts at 1,
\* a row with a number in 1..10 sets it and uses it, another row uses it
\* as it is, it grows by one after exactly the rows that gave a record and
\* had no number, and a row of empty cells gives no record and leaves it
C24_RunningCounter ==
    BlocksCalled =>
        \A b \in 1..Len(Blocks) :
            LET rule == CounterRule(fin.df, Blocks[b].start_row, Blocks[b].end_row, 1,
                                    BlockColumns, fin.shift, Blocks[b].day)
            IN  /\ Blocks[b].lessons = rule.lessons
                /\ Blocks[b].current_lesson_num = rule.counter
                /\ \A r \in BlockRowsOf(Blocks[b]) :
                       EmptyRow(RowAt(fin.df, r)) =>
                           /\ ~ExplicitNumber(fin.df, r).some
                           /\ RowLessonsFrom(RowAt(fin.df, r), BlockColumns, 1, 1,
                                             fin.shift, Blocks[b].day) = <<>>

\* a block was read with a numbered row with a lesson, then a row of
\* empty cells, then a row with a lesson and no number, which left the
\* counter at 2
C24_Witness ==
    /\ BlocksCalled
    /\ \E b \in 1..Len(Blocks) :
        /\ Blocks[b].end_row - Blocks[b].start_row = 3
        /\ ExplicitNumber(fin.df, Blocks[b].start_row) = Some(1)
        /\ EmptyRow(RowAt(fin.df, Blocks[b].start_row + 1))
        /\ ~ExplicitNumber(fin.df, Blocks[b].start_row + 2).some
        /\ Len(Blocks[b].lessons) >= 2
        /\ Blocks[b].current_lesson_num = 2

\* C25 as claimed (no placeholder as room): no lesson of a day block has
\* a room that is "-" or the long dash or that contains a day name
C25_RoomNotPlaceholder ==
    BlocksCalled =>
        \A b \in 1..Len(Blocks) : \A n \in 1..Len(Blocks[b].lessons) :
            /\ Blocks[b].lessons[n].room \notin {Dash, LongDash}
            /\ ~_is_day_of_week(Blocks[b].lessons[n].room)

\* C29 as claimed (one row per lesson number): in a day block two lessons
\* of one class, which come from two rows, have different lesson numbers
C29_NumbersDistinctInBlock ==
    BlocksCalled =>
        \A b \in 1..Len(Blocks) :
            \A n \in 1..Len(Blocks[b].lessons) : \A m \in 1..Len(Blocks[b].lessons) :
                (n # m /\ Blocks[b].lessons[n].class = Blocks[b].lessons[m].class)
                    => Blocks[b].lessons[n].lesson_number # Blocks[b].lessons[m].lesson_number

\* the header row of the parsed grid, its texts and its class columns
ParsedHeader == _find_class_header_row(ParsedGrid).val
HeaderTexts ==
    {Strip(iloc(ParsedGrid, ParsedHeader, j)) :
        j \in {c \in 0..(NCols(ParsedGrid) - 1) : notna(iloc(ParsedGrid, ParsedHeader, c))}}
ParsedColumns == _extract_class_columns(ParsedGrid, ParsedHeader)

\* no row but the header row holds one of the texts of the header row
HeaderTextsOnlyThere ==
    \A i \in 0..(NRows(ParsedGrid) - 1) : \A j \in 0..(NCols(ParsedGrid) - 1) :
        (i # ParsedHeader /\ notna(iloc(ParsedGrid, i, j)))
            => Strip(iloc(ParsedGrid, i, j)) \notin HeaderTexts

\* C28 as claimed (the header row gives no lesson): when the texts of the
\* header row stand in no other row, no lesson of the result has one of
\* them as its subject, wherever the day rows lie
C28_HeaderRowGivesNoLesson ==
    (fin.fn = "parse" /\ fout.called /\ fout.ret.some /\ HeaderTextsOnlyThere) =>
        \A k \in 1..Len(fout.ret.val) : fout.ret.val[k].subject \notin HeaderTexts

\* the header row lies above every day row
HeaderAboveDays ==
    \A d \in 1..Len(_find_day_rows(ParsedGrid)) :
        ParsedHeader < _find_day_rows(ParsedGrid)[d][2]

\* C30 as claimed (no room from another class), for grids with the header
\* row above the day rows and its texts in no other row: a lesson of a
\* class whose column has the column of another class right after it has
\* no room, the next column being the only place a room is read from
C30_NoRoomFromOtherClass ==
    (/\ fin.fn = "parse" /\ fout.called /\ fout.ret.some
     /\ HeaderAboveDays /\ HeaderTextsOnlyThere) =>
        \A k \in 1..Len(fout.ret.val) : \A a \in 1..Len(ParsedColumns) :
            (/\ ParsedColumns[a][1] = fout.ret.val[k].class
             /\ \E b \in 1..Len(ParsedColumns) :
                    /\ ParsedColumns[b][1] # ParsedColumns[a][1]
                    /\ ParsedColumns[b][2] = ParsedColumns[a][2] + 1)
                => fout.ret.val[k].room = <<>>

\* C27 as claimed (a failed import changes nothing): when the import has
\* returned False, the table is the table of the moment of the call
C27_FailureLeavesTable ==
    \A p \in SeqProcs :
        (Done(p) /\ imp[p].ret = "False") => schedule = imp[p].before

(***************************************************************************)
(* The update loop of the bot: run() takes the updates one after another   *)
(* and process_update handles each to its end; admin_states holds the      *)
(* pending action of each administrator                                    *)
(***************************************************************************)
\* ADMINS, as the environment's default gives it
ADMINS == <<"r1kuza", "nadya_yakovleva01", "Priikalist">>

\* the user names updates come from: two administrators, a pupil, and an
\* account without a user name (user.get("username", ""))
Usernames == {"r1kuza", "priikalist", "pupil", ""}

\* str.lower on the names at hand
LowerName(name) == IF name = "Priikalist" THEN "priikalist" ELSE name

\* anyone is taken for an administrator
is_adminAnyone(username) == TRUE

\* is_admin: username and username.lower() in [admin.lower() for admin in ADMINS]
is_admin(username) ==
    /\ username # ""
    /\ LowerName(username) \in {LowerName(ADMINS[k]) : k \in 1..Len(ADMINS)}

\* the dict admin_states as a set of entries [user, action, shift]
StateHas(d, k) == \E e \in d : e.user = k
StateGet(d, k) == CHOOSE e \in d : e.user = k
StateSet(d, k, action, shift) ==
    {e \in d : e.user # k} \cup {[user |-> k, action |-> action, shift |-> shift]}
StateDel(d, k) == {e \in d : e.user # k}
ActionOf(d, k) == IF StateHas(d, k) THEN StateGet(d, k).action ELSE "none"

\* the texts and callback data of the updates
Texts == {"Upload", "Shift1", "Shift2", "Cancel"}
CallbackData == {"admin_upload_excel", "admin_back"}

\* the workbook sent as a document
BotBooks ==
    { <<[name |-> Sheet1, grid |-> <<HeaderRow, <<Sreda, NaN, Mat, NaN>>>>]>> }

\* the document message taken from the result of get_updates, as history:
\* its sender, whether the sender's pending action is waiting_excel, and
\* the table at that moment
Taken(username) ==
    [kind |-> "document", user |-> username,
     waiting_excel |-> ActionOf(bot.admin_states, username) = "waiting_excel",
     before |-> schedule]

\* the loop takes the next update although a handler is running
LoopAlwaysFree == TRUE

\* run(): process_update(update) has returned before the loop goes on
LoopFree == bot.running = "none"

\* handle_shift_selection
handle_shift_selection(d, username, shift_text) ==
    IF ~StateHas(d, username) THEN d
    ELSE StateSet(d, username, "waiting_excel",
                 IF shift_text = "Shift1" THEN "1" ELSE "2")

\* handle_admin_menu for the texts at hand
handle_admin_menu(d, username, text) ==
    IF ~is_admin(username) THEN d
    ELSE IF text = "Upload" THEN StateSet(d, username, "select_shift", "none")
    ELSE IF text \in {"Shift1", "Shift2"} THEN handle_shift_selection(d, username, text)
    ELSE d

\* handle_admin_callback for the data at hand
handle_admin_callback(d, username, data) ==
    IF ~is_admin(username) THEN d
    ELSE IF data = "admin_upload_excel" THEN StateSet(d, username, "select_shift", "none")
    ELSE IF data = "admin_back" THEN StateDel(d, username)
    ELSE d

\* the command chain of process_update, reached when no pending action
\* took the text
Commands(d, username, text) ==
    IF text = "Upload" THEN handle_admin_menu(d, username, text)
    ELSE IF text \in {"Shift1", "Shift2"} THEN handle_shift_selection(d, username, text)
    ELSE d

\* process_update on a text message
TextMessage(d, username, text) ==
    IF text = "Cancel" THEN StateDel(d, username)
    ELSE IF ActionOf(d, username) = "select_shift"
    THEN handle_shift_selection(d, username, text)
    ELSE Commands(d, username, text)

\* a text message is handled (one the rate limiter drops changes nothing:
\* a stuttering step)
BotText ==
    /\ LoopFree
    /\ \E username \in Usernames, text \in Texts :
           bot' = [bot EXCEPT !.admin_states = TextMessage(@, username, text)]
    /\ UNCHANGED <<schedule, imp, edit, fin, fout>>

\* a callback query with admin_ data is handled
BotCallback ==
    /\ LoopFree
    /\ \E username \in Usernames, data \in CallbackData :
           bot' = [bot EXCEPT
               !.admin_states = handle_admin_callback(@, username, data)]
    /\ UNCHANGED <<schedule, imp, edit, fin, fout>>

\* the document message taken last, as history: whether its sender's
\* pending action is waiting_excel and, if not, the table at that moment
LastDocument(username) ==
    [kind |-> "document",
     waiting_excel |-> ActionOf(bot.admin_states, username) = "waiting_excel",
     before |-> IF ActionOf(bot.admin_states, username) = "waiting_excel"
                THEN {} ELSE schedule]

\* why a document message ends without an import
DropReasons == {"rate_limited", "no_pending_action", "not_excel_name", "not_fetched"}

\* whether process_update takes the document: the sender's pending action
\* is waiting_excel
DocumentTaken(d, username) == ActionOf(d, username) = "waiting_excel"

\* a document message that ends without an import: rate-limited, from a
\* sender without the pending action, not an Excel file name, or not
\* fetched (get_file or download_file gave nothing)
BotDocumentDropped ==
    /\ LoopFree
    /\ \E username \in Usernames, reason \in DropReasons :
           /\ reason = "no_pending_action" => ~DocumentTaken(bot.admin_states, username)
           /\ bot' = [bot EXCEPT !.last = LastDocument(username)]
    /\ UNCHANGED <<schedule, imp, edit, fin, fout>>

\* a document message of a sender with the pending action waiting_excel:
\* the file is fetched and import_schedule_from_excel(file_content, shift)
\* is called with the shift of the pending action
BotDocumentImport(p) ==
    /\ LoopFree
    /\ imp[p].pc = "idle"
    /\ \E username \in Usernames, book \in BotBooks :
           /\ DocumentTaken(bot.admin_states, username)
           /\ imp' = [imp EXCEPT ![p] =
                  [IdleImport EXCEPT !.pc = "select_sheet", !.book = book,
                       !.shift = <<StateGet(bot.admin_states, username).shift>>,
                       !.before = schedule]]
           /\ bot' = [bot EXCEPT !.running = p,
                                 !.last = LastDocument(username),
                                 !.by[p] = Taken(username)]
    /\ UNCHANGED <<schedule, edit, fin, fout>>

\* the import has returned: the answer is sent and the pending action of
\* the sender is deleted
BotDocumentReturn(p) ==
    /\ bot.running = p
    /\ imp[p].pc = "done"
    /\ bot' = [bot EXCEPT !.running = "none",
                          !.admin_states = StateDel(@, bot.by[p].user)]
    /\ UNCHANGED <<schedule, imp, edit, fin, fout>>

InitBot ==
    /\ schedule = ConcTable
    /\ imp = [p \in Procs |-> IdleImport]
    /\ edit = IdleEdit
    /\ bot = IdleBot
    /\ fin = NoArgs
    /\ fout = Pending

NextBot ==
    \/ BotText
    \/ BotCallback
    \/ BotDocumentDropped
    \/ \E p \in Procs :
        \/ BotDocumentImport(p)
        \/ SelectSheetStep(p)
        \/ LocateHeaderStep(p)
        \/ LocateDaysStep(p)
        \/ ExtractStep(p)
        \/ \E c \in imp[p].imported_classes : DeleteOk(p, c)
        \/ \E c \in imp[p].imported_classes : DeleteRaise(p, c)
        \/ UpsertOk(p)
        \/ UpsertRaise(p)
        \/ BotDocumentReturn(p)

SpecBot == InitBot /\ [][NextBot]_vars

\* the import of p is between its first statement and its last
Merging(p) == imp[p].ops # <<>> /\ imp[p].pc \in {"delete", "upsert"}

\* admin_states holds one pending action for a user
OnePendingAction ==
    \A e \in bot.admin_states : \A f \in bot.admin_states : e.user = f.user => e = f

\* no statement of another import while the import of p is between its
\* first statement and its last
NoStatementBetween ==
    \A p \in Procs : \A q \in Procs :
        (p # q /\ Merging(p)) => imp'[q].ops = imp[q].ops

\* C21 (the update loop serializes the imports): an administrator has at
\* most one pending action at any time, and no DELETE or INSERT of one
\* import is issued between the first DELETE and the last INSERT of another
C21_ImportsSerialized == []OnePendingAction /\ [][NoStatementBetween]_vars

\* an import is between its DELETE and its INSERT, after the import of
\* another administrator ran to its end, while that administrator is
\* again waiting to send a workbook
C21_Witness ==
    \E p \in Procs : \E q \in Procs :
        /\ p # q
        /\ Merging(p) /\ bot.running = p
        /\ Done(q) /\ Len(imp[q].ops) >= 2
        /\ bot.by[p].user # bot.by[q].user
        /\ ActionOf(bot.admin_states, bot.by[q].user) = "waiting_excel"

\* the users of the administrator list, letter case set aside
Administrators ==
    {u \in Usernames : \E k \in 1..Len(ADMINS) : LowerName(u) = LowerName(ADMINS[k])}

\* C26 (only an administrator starts an import): every key of admin_states
\* is an administrator; an import was called for a document message of an
\* administrator whose pending action was waiting_excel; and after a
\* document message of a sender without that pending action the table is
\* the table of before the message
C26_ImportByAdministratorOnly ==
    /\ \A e \in bot.admin_states : e.user \in Administrators
    /\ \A p \in Procs :
           imp[p].pc # "idle" =>
               /\ bot.by[p].kind = "document"
               /\ bot.by[p].waiting_excel
               /\ bot.by[p].user \in Administrators
    /\ (bot.last.kind = "document" /\ ~bot.last.waiting_excel) =>
           schedule = bot.last.before

\* a document message of a sender without the pending action was dropped,
\* after an import of an administrator had changed the table and while an
\* administrator is waiting to send a workbook
C26_Witness ==
    /\ bot.last.kind = "document" /\ ~bot.last.waiting_excel
    /\ bot.running = "none"
    /\ \E p \in Procs : Done(p) /\ imp[p].ret = "True" /\ AllOk(p)
    /\ schedule # ConcTable
    /\ \E e \in bot.admin_states : e.action = "waiting_excel"

====
